---- MODULE Spec2Model ----
(***************************************************************************)
(* A model of carutil: the BOM block store, the CAR payloads layered on    *)
(* it, the asset inventory (assetutil -I) and the rendition extractor.     *)
(*                                                                         *)
(* 32-bit fields are kept at their width.  A u32 is the sequence of its    *)
(* four bytes, least significant first (the order CAR payloads store it    *)
(* in), so that sums and products near 2^32 can be formed exactly.         *)
(***************************************************************************)
EXTENDS Integers, Sequences, FiniteSets, TLC

\* ------------------------------------------------------------------------
\* Option<T>: None is the empty sequence, Some(x) the one-element sequence.
None == <<>>
Some(x) == <<x>>
IsSome(o) == Len(o) = 1

\* ------------------------------------------------------------------------
\* u32 arithmetic on byte sequences (least significant byte first).

\* The little-endian bytes of a number below 2^31.
U32(n) == <<n % 256, (n \div 256) % 256, (n \div 65536) % 256, (n \div 16777216) % 256>>

\* The i-th byte of a byte sequence, 0 beyond its end.
Limb(x, i) == IF i <= Len(x) THEN x[i] ELSE 0

\* Leading (most significant) zero bytes dropped: the canonical form of a
\* natural number of any size.
RECURSIVE Canon(_)
Canon(x) == IF Len(x) > 0 /\ x[Len(x)] = 0 THEN Canon(SubSeq(x, 1, Len(x) - 1)) ELSE x

\* Column sums to bytes, carrying upwards: the exact value, canonical.
RECURSIVE Carry(_, _)
Carry(cols, c) ==
    IF Len(cols) = 0
    THEN (IF c = 0 THEN <<>> ELSE <<c % 256>> \o Carry(<<>>, c \div 256))
    ELSE <<(cols[1] + c) % 256>> \o Carry(Tail(cols), (cols[1] + c) \div 256)

\* The exact sum and product of two naturals given as byte sequences.
ExactAdd(x, y) ==
    LET n == IF Len(x) > Len(y) THEN Len(x) ELSE Len(y)
    IN  Canon(Carry([i \in 1..n |-> Limb(x, i) + Limb(y, i)], 0))

RECURSIVE ColumnSum(_, _, _, _)
ColumnSum(x, y, k, i) ==
    IF i > k THEN 0 ELSE Limb(x, i) * Limb(y, k + 1 - i) + ColumnSum(x, y, k, i + 1)

ExactMul(x, y) ==
    LET n == Len(x) + Len(y)
    IN  Canon(Carry([k \in 1..n |-> ColumnSum(x, y, k, 1)], 0))

\* A natural number as a u32: its four low bytes (the wrapped value).
Wrap32(x) == [i \in 1..4 |-> Limb(x, i)]

\* Does the exact value fit a u32?
Fits32(x) == Len(Canon(x)) <= 4

\* The number a byte sequence stands for, when it is below 2^31.
IsSmall(x) == Limb(Canon(x), 4) < 128 /\ Len(Canon(x)) <= 4
ToNat(x) == Limb(x, 1) + 256 * Limb(x, 2) + 65536 * Limb(x, 3) + 16777216 * Limb(x, 4)

\* Rust's `a + b` and `a * b` on u32.  With overflow checks (the dev
\* profile) an overflowing operation panics; without them (the release
\* profile) the result wraps.  [panic, value].
Add32(a, b, checks) ==
    LET e == ExactAdd(a, b)
    IN  [panic |-> checks /\ ~Fits32(e), value |-> Wrap32(e)]

Mul32(a, b, checks) ==
    LET e == ExactMul(a, b)
    IN  [panic |-> checks /\ ~Fits32(e), value |-> Wrap32(e)]

\* Unsigned division of a u32 by a small divisor (1..255), long division
\* from the most significant byte.
RECURSIVE DivBytes(_, _, _, _)
DivBytes(x, d, i, rem) ==
    IF i = 0 THEN <<>>
    ELSE LET cur == rem * 256 + x[i]
         IN  DivBytes(x, d, i - 1, cur % d) \o <<cur \div d>>

Div32(x, d) == DivBytes(x, d, 4, 0)

\* Order on naturals given as byte sequences.
RECURSIVE LessFrom(_, _, _)
LessFrom(x, y, i) ==
    IF i = 0 THEN FALSE
    ELSE IF x[i] # y[i] THEN x[i] < y[i]
    ELSE LessFrom(x, y, i - 1)

NatLess(x, y) ==
    LET cx == Canon(x)
        cy == Canon(y)
    IN  IF Len(cx) # Len(cy) THEN Len(cx) < Len(cy) ELSE LessFrom(cx, cy, Len(cx))

NatEq(x, y) == Canon(x) = Canon(y)
NatLeq(x, y) == NatLess(x, y) \/ NatEq(x, y)

\* ------------------------------------------------------------------------
\* Strings.  A string is the sequence of its bytes.

\* The index of the first NUL byte of a buffer, Len + 1 when it has none.
FirstNul(buffer, i) ==
    LET nuls == {j \in i..Len(buffer) : buffer[j] = 0}
    IN  IF i > Len(buffer) THEN i
        ELSE IF nuls = {} THEN Len(buffer) + 1
        ELSE CHOOSE j \in nuls : \A k \in nuls : j <= k

\* String::from_utf8_lossy on the bytes the model draws: ASCII bytes stand
\* for themselves; a byte 0xF8..0xFF, valid nowhere in UTF-8, becomes
\* U+FFFD (EF BF BD).
RECURSIVE Utf8Lossy(_)
Utf8Lossy(bytes) ==
    IF Len(bytes) = 0 THEN <<>>
    ELSE IF Len(bytes) = 1
    THEN (IF bytes[1] >= 248 THEN <<239, 191, 189>> ELSE <<bytes[1]>>)
    ELSE Utf8Lossy(SubSeq(bytes, 1, Len(bytes) \div 2))
         \o Utf8Lossy(SubSeq(bytes, Len(bytes) \div 2 + 1, Len(bytes)))

\* A buffer without the NUL bytes at its end.
StripTrailingNuls(buffer) ==
    LET kept == {i \in 1..Len(buffer) : buffer[i] # 0} \cup {0}
    IN  SubSeq(buffer, 1, CHOOSE i \in kept : \A j \in kept : j <= i)

\* parse_padded_string keeping all but the NUL bytes at the end.
ParsePaddedStringStripping(buffer) == Utf8Lossy(StripTrailingNuls(buffer))

\* common::parse_padded_string: the bytes before the first NUL.
ParsePaddedString(buffer) == Utf8Lossy(SubSeq(buffer, 1, FirstNul(buffer, 1) - 1))

\* ------------------------------------------------------------------------
\* Rendition keys and the key format.

\* The number of u16 slots of a rendition key.
KeySlots == 18

\* The KEYFORMAT of the canonical fixture (tests/assetutil_tests.rs).
FixtureKeyFormat ==
    << "Appearance", "Scale", "Idiom", "Subtype", "DeploymentTarget",
       "GraphicsClass", "MemoryClass", "DisplayGamut", "Direction",
       "SizeClassHorizontal", "SizeClassVertical", "Identifier", "Element",
       "Part", "State", "Value", "Dimension1", "Dimension2" >>

\* std::iter::zip: pairs up to the shorter of the two sequences.
Zip(a, b) ==
    LET n == IF Len(a) < Len(b) THEN Len(a) ELSE Len(b)
    IN  [i \in 1..n |-> <<a[i], b[i]>>]

\* enum AttributeType, in declaration order: the ordinal of a type is its
\* index here less one.
AttributeTypes ==
    << "Look", "Element", "Part", "Size", "Direction", "PlaceHolder", "Value",
       "Appearance", "Dimension1", "Dimension2", "State", "Layer", "Scale",
       "Unknown13", "PresentationState", "Idiom", "Subtype", "Identifier",
       "PreviousValue", "PreviousState", "SizeClassHorizontal",
       "SizeClassVertical", "MemoryClass", "GraphicsClass", "DisplayGamut",
       "DeploymentTarget" >>

AttributeOrdinal(a) == (CHOOSE i \in 1..Len(AttributeTypes) : AttributeTypes[i] = a) - 1

\* KeyFormatMap reading, for each attribute type, the slot at the type's
\* ordinal instead of the slot at its position in the key format.
KeyFormatMapByOrdinal(attribute_types, key) ==
    [i \in 1..(IF Len(attribute_types) < Len(key) THEN Len(attribute_types) ELSE Len(key)) |->
        <<attribute_types[i], key[(AttributeOrdinal(attribute_types[i]) % Len(key)) + 1]>>]

\* KeyFormat::map: the attribute types zipped with the key's slots.
KeyFormatMap(attribute_types, key) == Zip(attribute_types, key)

\* FindAttribute giving the value of the last pair of the attribute.
FindLastAttribute(pairs, attribute) ==
    IF \E i \in 1..Len(pairs) : pairs[i][1] = attribute
    THEN Some(pairs[CHOOSE i \in 1..Len(pairs) :
                        /\ pairs[i][1] = attribute
                        /\ \A j \in (i + 1)..Len(pairs) : pairs[j][1] # attribute][2])
    ELSE None

\* Iterator::find on a sequence of (attribute, value) pairs: the value of
\* the first pair whose attribute is the one asked for.
RECURSIVE FindAttribute(_, _)
FindAttribute(pairs, attribute) ==
    IF Len(pairs) = 0 THEN None
    ELSE IF pairs[1][1] = attribute THEN Some(pairs[1][2])
    ELSE FindAttribute(Tail(pairs), attribute)

\* ------------------------------------------------------------------------
\* The asset inventory: AssetUtilEntry.

\* The size of the fixed part of a CSI record.
CSIHeaderSize == 184

\* The divisor of scale_factor.
ScaleDivisor == 100

AssetTypeOf(layout) ==
    CASE layout = "Color" -> Some("Color")
      [] layout = "Data" -> Some("Data")
      [] layout = "Image" -> Some("Image")
      [] layout = "MultisizeImage" -> Some("MultiSized Image")
      [] OTHER -> None

\* `184 + tlv_length + rendition_length`, evaluated left to right in u32.
SizeOnDisk(csi_header, checks) ==
    LET first == Add32(U32(CSIHeaderSize), csi_header.tlv_length, checks)
        second == Add32(first.value, csi_header.rendition_length, checks)
    IN  [panic |-> first.panic \/ second.panic, value |-> second.value]

\* ScaleOf without the zero case.
ScaleOfAlwaysDivides(csi_header) == Div32(csi_header.scale_factor, ScaleDivisor)

ScaleOf(csi_header) ==
    IF csi_header.scale_factor = U32(0) THEN U32(1)
    ELSE Div32(csi_header.scale_factor, ScaleDivisor)

\* RenditionFlags::is_opaque: `self.0 & 0x2 == 0x2`.
IsOpaque(flags) == (flags[1] \div 2) % 2 = 1

\* csi::Header::is_opaque, which from_csi_header calls: the is_opaque of the
\* rendition_flags of the header.
HeaderIsOpaque(csi_header) == IsOpaque(csi_header.rendition_flags)

\* TemplateMode, FromPrimitive: Automatic = 0, Original, Template.
TemplateModes == <<"Automatic", "Original", "Template">>

\* RenditionFlags::template_rendering_mode: `(self.0 >> 5) & 0x7` made a
\* TemplateMode, None for a value that is none.
TemplateRenderingMode(flags) ==
    IF (flags[1] \div 32) % 8 < Len(TemplateModes)
    THEN Some(TemplateModes[((flags[1] \div 32) % 8) + 1])
    ELSE None

\* `opaque` of from_csi_header (311-314).
OpaqueOf(csi_header) ==
    IF csi_header.layout = "Image" THEN Some(HeaderIsOpaque(csi_header)) ELSE None

\* The template mode whatever the layout is.
TemplateModeAnyLayout(csi_header) == TemplateRenderingMode(csi_header.rendition_flags)

\* `template_mode` of from_csi_header (381-408).
TemplateModeOf(csi_header) ==
    IF csi_header.layout = "Image"
    THEN IF csi_header.rendition_data.variant \in {"Theme", "ThemeCBCK"}
         THEN IF csi_header.rendition_data.compression_type = "PaletteImg"
              THEN TemplateRenderingMode(csi_header.rendition_flags)
              ELSE IF OpaqueOf(csi_header) = Some(TRUE)
                   THEN TemplateRenderingMode(csi_header.rendition_flags)
                   ELSE None
         ELSE IF OpaqueOf(csi_header) = Some(TRUE)
              THEN TemplateRenderingMode(csi_header.rendition_flags)
              ELSE None
    ELSE None

\* AssetUtilEntry::from_csi_header: [panic, entry].
FromCsiHeader(csi_header, facet_key, rendition_key_values, checks) ==
    LET layout == csi_header.layout
        size == SizeOnDisk(csi_header, checks)
    IN  [ panic |-> size.panic,
          entry |->
            [ asset_type |-> AssetTypeOf(layout),
              name |-> facet_key,
              name_identifier |-> FindAttribute(rendition_key_values, "Identifier"),
              rendition_name |->
                  IF layout = "Image" THEN Some(ParsePaddedString(csi_header.name))
                  ELSE None,
              scale |-> Some(ScaleOf(csi_header)),
              size_on_disk |-> Some(size.value),
              opaque |-> OpaqueOf(csi_header),
              template_mode |-> TemplateModeOf(csi_header) ] ]

\* The (identifier, name) binding of one FACETKEYS entry: the first
\* Identifier attribute of its token, None when the token has none.
FacetBinding(facet) ==
    LET pairs == [i \in 1..Len(facet.attributes) |->
                    <<facet.attributes[i].name, facet.attributes[i].value>>]
    IN  FindAttribute(pairs, "Identifier")

\* FacetLookup keeping the first binding of an identifier, not the last.
RECURSIVE FacetLookupFirst(_, _, _)
FacetLookupFirst(db, id, i) ==
    LET hits == {j \in 1..i : FacetBinding(db[j]) = Some(id)}
    IN  IF hits = {} THEN None
        ELSE Some(db[CHOOSE j \in hits : \A k \in hits : j <= k].name)

\* HashMap::get on the map collected from the bindings in FACETKEYS order
\* (a later binding of an identifier replaces an earlier one).
RECURSIVE FacetLookup(_, _, _)
FacetLookup(db, id, i) ==
    IF i = 0 THEN None
    ELSE IF FacetBinding(db[i]) = Some(id) THEN Some(db[i].name)
    ELSE FacetLookup(db, id, i - 1)

\* One iteration of the loop of entries_from_asset_storage.
EntryFor(fmt, db, rendition, checks) ==
    LET rendition_key_values == KeyFormatMap(fmt, rendition.key)
        name_identifier == FindAttribute(rendition_key_values, "Identifier")
        facet_key == IF IsSome(name_identifier)
                     THEN FacetLookup(db, name_identifier[1], Len(db))
                     ELSE None
    IN  FromCsiHeader(rendition.csi, facet_key, rendition_key_values, checks)

\* AssetUtilEntry::entries_from_asset_storage: the entries in imagedb
\* order; the first panicking rendition ends the process.
RECURSIVE EntriesFrom(_, _, _, _, _)
EntriesFrom(fmt, db, images, checks, i) ==
    IF i > Len(images) THEN [panic |-> FALSE, entries |-> <<>>]
    ELSE LET e == EntryFor(fmt, db, images[i], checks)
             rest == EntriesFrom(fmt, db, images, checks, i + 1)
         IN  IF e.panic THEN [panic |-> TRUE, entries |-> <<>>]
             ELSE [panic |-> rest.panic,
                   entries |-> IF rest.panic THEN <<>> ELSE <<e.entry>> \o rest.entries]

\* ------------------------------------------------------------------------
\* State.

VARIABLES
    overflow_checks,  \* the build profile: do u32 operations check overflow?
    pc,               \* where the running command is
    renditionkeyfmt,  \* CommonAssetStorage.renditionkeyfmt.attribute_types
    facetkeysdb,      \* CommonAssetStorage.facetkeysdb
    imagedb,          \* CommonAssetStorage.imagedb, in ascending key order
    entries,          \* the Vec<AssetUtilEntry> of the assetutil command
    attempts,         \* the extract command: the outcome of each extract call so far
    files,            \* the destination directory: a set of [path, content]
    stderr,           \* the lines written to standard error
    exit_code,        \* the exit code of the process, None while it runs
    file,             \* the catalog file on disk, None when there is none
    bom_storage,      \* the bom::Storage read from the file, None before the read
    lookup,           \* the result of the last get_named_block, None before the first
    catalog,          \* the in-memory CommonAssetStorage given to write_data
    loaded,           \* the result of the last CarUtilAssetStorage::from of the file
    reader,           \* the bytes from the position of a reader on, None without one
    parsed,           \* the result of the read at that position, None before it
    json              \* the entries the assetutil command puts out, in order

vars == <<overflow_checks, pc, renditionkeyfmt, facetkeysdb, imagedb, entries,
          attempts, files, stderr, exit_code,
          file, bom_storage, lookup, catalog, loaded, reader, parsed, json>>

\* The variables of a single read.
reader_vars == <<reader, parsed>>

\* No single read is under way.
ReaderIdle == reader = None /\ parsed = None

\* The assetutil command has put out nothing.
NoResult == json = <<>>

\* The variables of the block store and of the catalog writer.
store_vars == <<file, bom_storage, lookup, catalog, loaded>>

\* No catalog file is being written or looked into.
StoreIdle ==
    /\ file = None
    /\ bom_storage = None
    /\ lookup = None
    /\ catalog = None
    /\ loaded = None

\* The variables of the extract command.
extract_vars == <<attempts, files, stderr, exit_code>>

\* ------------------------------------------------------------------------
\* Inputs: the contents of the file the command is given.

MaxRenditions == 2
MaxFacets == 2

\* Sequences over a set, up to a length.
SeqsUpTo(S, n) == UNION {[1..k -> S] : k \in 0..n}

\* derive(Ord) on Key { raw: [u16; 18] }: lexicographic on the slots.
RECURSIVE KeyLessFrom(_, _, _)
KeyLessFrom(a, b, i) ==
    IF i > KeySlots THEN FALSE
    ELSE IF a[i] # b[i] THEN a[i] < b[i]
    ELSE KeyLessFrom(a, b, i + 1)

KeyLess(a, b) == KeyLessFrom(a, b, 1)

\* A BTreeMap's iteration order: strictly ascending keys.
IsKeyOrdered(images) ==
    \A i \in 1..(Len(images) - 1) : KeyLess(images[i].key, images[i + 1].key)

\* Three rendition keys: slot i of the first holds 100 + i, of the second
\* 200 + i; the third is the second with another last slot (two renditions
\* of one facet).
KeySamples ==
    { [i \in 1..KeySlots |-> 100 + i],
      [i \in 1..KeySlots |-> 200 + i],
      [i \in 1..KeySlots |-> IF i = KeySlots THEN 300 ELSE 200 + i] }

\* Key formats: the fixture's; a short one; one without Identifier; one of
\* 19 attribute types whose last is its only Identifier.
KeyFormatSamples ==
    { FixtureKeyFormat,
      << "Scale", "Identifier" >>,
      << "Scale", "Idiom" >>,
      [i \in 1..(KeySlots + 1) |->
          IF i = KeySlots + 1 THEN "Identifier"
          ELSE IF FixtureKeyFormat[i] = "Identifier" THEN "Look"
          ELSE FixtureKeyFormat[i]] }

\* FACETKEYS entries: (name, token).  Two share the name "A", two share the
\* identifier 112, one token has no Identifier attribute.
FacetSamples ==
    { [name |-> <<65>>, attributes |-> << [name |-> "Identifier", value |-> 112] >>],
      [name |-> <<65>>, attributes |-> << [name |-> "Element", value |-> 85],
                                          [name |-> "Identifier", value |-> 212] >>],
      [name |-> <<66>>, attributes |-> << [name |-> "Identifier", value |-> 112] >>],
      [name |-> <<67>>, attributes |-> << [name |-> "Element", value |-> 112] >>] }

RenditionData(variant, compression_type, raw_data) ==
    [variant |-> variant, compression_type |-> compression_type, raw_data |-> raw_data]

CsiHeader(layout, name, width, height, scale_factor, tlv_length, rendition_length, data) ==
    [ layout |-> layout, name |-> name, width |-> width, height |-> height,
      scale_factor |-> scale_factor, tlv_length |-> tlv_length,
      rendition_length |-> rendition_length, rendition_data |-> data,
      rendition_flags |-> U32(0) ]

\* A CSI header with other rendition_flags.
WithFlags(csi_header, flags) == [csi_header EXCEPT !.rendition_flags = flags]

\* CSI headers for the inventory: the three kinds of the fixture, a scale
\* factor that is no multiple of 100, and length fields near 2^32 (the
\* rendition_length field is not used to parse the body).
InventoryCsiSamples ==
    { CsiHeader("Color", <<77, 0>>, U32(0), U32(0), U32(0), U32(0), U32(76),
                RenditionData("Color", "NA", <<>>)),
      CsiHeader("Data", <<77, 0>>, U32(0), U32(0), U32(100), U32(0), U32(54),
                RenditionData("RawData", "NA", <<1, 2>>)),
      CsiHeader("Image", <<84, 0>>, U32(84), U32(84), U32(300), U32(16), U32(1761),
                RenditionData("Theme", "PaletteImg", <<>>)),
      CsiHeader("Image", <<85, 0>>, U32(2), U32(2), U32(250), U32(0), <<255, 255, 255, 255>>,
                RenditionData("Unknown", "NA", <<>>)),
      CsiHeader("Data", <<77, 0>>, U32(0), U32(0), <<255, 255, 255, 255>>, U32(16),
                <<56, 255, 255, 255>>, RenditionData("RawData", "NA", <<>>)) }

\* ------------------------------------------------------------------------
\* The order of the entries put out.

\* The bytes of the asset type names.
AssetTypeBytes(asset_type) ==
    CASE asset_type = "Color" -> <<67, 111, 108, 111, 114>>
      [] asset_type = "Data" -> <<68, 97, 116, 97>>
      [] asset_type = "Image" -> <<73, 109, 97, 103, 101>>
      [] asset_type = "MultiSized Image" ->
             <<77, 117, 108, 116, 105, 83, 105, 122, 101, 100, 32, 73, 109, 97, 103, 101>>

\* <String as Ord>::cmp: byte by byte, a proper prefix being less.
RECURSIVE CmpString(_, _)
CmpString(a, b) ==
    IF Len(a) = 0 /\ Len(b) = 0 THEN "Equal"
    ELSE IF Len(a) = 0 THEN "Less"
    ELSE IF Len(b) = 0 THEN "Greater"
    ELSE IF a[1] < b[1] THEN "Less"
    ELSE IF a[1] > b[1] THEN "Greater"
    ELSE CmpString(Tail(a), Tail(b))

\* <Option<String> as Ord>::cmp: None is less than every Some.
CmpOption(a, b) ==
    IF ~IsSome(a) /\ ~IsSome(b) THEN "Equal"
    ELSE IF ~IsSome(a) THEN "Less"
    ELSE IF ~IsSome(b) THEN "Greater"
    ELSE CmpString(a[1], b[1])

\* The asset type of an entry as the Option<String> it is.
AssetTypeString(entry) ==
    IF IsSome(entry.asset_type) THEN Some(AssetTypeBytes(entry.asset_type[1])) ELSE None

\* The cmp of the closure of sort_by: the tuples (asset_type, name,
\* rendition_name) compared component by component.
CmpEntries(a, b) ==
    IF CmpOption(AssetTypeString(a), AssetTypeString(b)) # "Equal"
    THEN CmpOption(AssetTypeString(a), AssetTypeString(b))
    ELSE IF CmpOption(a.name, b.name) # "Equal" THEN CmpOption(a.name, b.name)
    ELSE CmpOption(a.rendition_name, b.rendition_name)

\* One entry put into a sorted list behind the entries not greater than it.
RECURSIVE InsertSorted(_, _)
InsertSorted(sorted, entry) ==
    IF Len(sorted) = 0 THEN <<entry>>
    ELSE IF CmpEntries(entry, sorted[1]) = "Less" THEN <<entry>> \o sorted
    ELSE <<sorted[1]>> \o InsertSorted(Tail(sorted), entry)

\* The entries left as they are.
Unsorted(list) == list

\* Vec::sort_by with the closure: a stable sort.
RECURSIVE SortBy(_)
SortBy(list) ==
    IF Len(list) = 0 THEN <<>>
    ELSE InsertSorted(SortBy(SubSeq(list, 1, Len(list) - 1)), list[Len(list)])

\* ------------------------------------------------------------------------
\* The assetutil command.

InitInventory ==
    /\ overflow_checks \in BOOLEAN
    /\ pc = "loaded"
    /\ renditionkeyfmt \in KeyFormatSamples
    /\ facetkeysdb \in SeqsUpTo(FacetSamples, MaxFacets)
    /\ imagedb \in {images \in SeqsUpTo([key : KeySamples, csi : InventoryCsiSamples],
                                        MaxRenditions) : IsKeyOrdered(images)}
    /\ entries = <<>>
    /\ attempts = <<>>
    /\ files = {}
    /\ stderr = <<>>
    /\ exit_code = None
    /\ StoreIdle
    /\ ReaderIdle
    /\ NoResult

\* main, Commands::Assetutil: entries_from_asset_storage over the store,
\* then the sort of the entries and their push onto the result printed.  `entries`
\* keeps the entries as the storage gave them.
EntriesFromAssetStorage ==
    /\ pc = "loaded"
    /\ \E r \in {EntriesFrom(renditionkeyfmt, facetkeysdb, imagedb, overflow_checks, 1)} :
           /\ pc' = IF r.panic THEN "panicked" ELSE "listed"
           /\ entries' = r.entries
           /\ json' = SortBy(r.entries)
    /\ UNCHANGED <<overflow_checks, renditionkeyfmt, facetkeysdb, imagedb>>
    /\ UNCHANGED extract_vars
    /\ UNCHANGED store_vars
    /\ UNCHANGED reader_vars

NextInventory == EntriesFromAssetStorage

SpecInventory == InitInventory /\ [][NextInventory]_vars

\* ------------------------------------------------------------------------
\* Claims about the inventory.  Entry i is the entry of rendition i of
\* imagedb.

Listed == pc = "listed"

\* C1 (as claimed): for every rendition the reported SizeOnDisk is the sum
\* 184 + tlv_length + rendition_length, whatever the two length fields hold.
C1_SizeOnDiskIsSum ==
    Listed =>
        \A i \in 1..Len(entries) :
            /\ IsSome(entries[i].size_on_disk)
            /\ NatEq(entries[i].size_on_disk[1],
                     ExactAdd(ExactAdd(U32(CSIHeaderSize), imagedb[i].csi.tlv_length),
                              imagedb[i].csi.rendition_length))

\* C2: for every rendition the reported Scale is 1 when scale_factor is 0
\* and otherwise the integer quotient scale_factor / 100, that is the s
\* with 100 * s <= scale_factor < 100 * (s + 1).
C2_ScaleIsQuotient ==
    Listed =>
        \A i \in 1..Len(entries) :
            LET sf == imagedb[i].csi.scale_factor
                scale == entries[i].scale
            IN  /\ IsSome(scale)
                /\ NatEq(sf, <<>>) => NatEq(scale[1], U32(1))
                /\ ~NatEq(sf, <<>>) =>
                      /\ NatLeq(ExactMul(scale[1], U32(ScaleDivisor)), sf)
                      /\ NatLess(sf, ExactMul(ExactAdd(scale[1], U32(1)), U32(ScaleDivisor)))

\* C2's case: a rendition with scale_factor 0 listed with Scale 1 beside one
\* with scale_factor 250 listed with Scale 2.
C2_Witness ==
    /\ Listed
    /\ \E i, j \in 1..Len(entries) :
          /\ imagedb[i].csi.scale_factor = U32(0)
          /\ entries[i].scale = Some(U32(1))
          /\ imagedb[j].csi.scale_factor = U32(250)
          /\ entries[j].scale = Some(U32(2))

\* The positions of the key format that hold Identifier.
IdentifierPositions(fmt) == {p \in 1..Len(fmt) : fmt[p] = "Identifier"}

\* C3 (as claimed): NameIdentifier is the value of the key slot at the
\* position where the key format holds Identifier, and it is absent only
\* when the key format lists no Identifier.
C3_NameIdentifierAsClaimed ==
    Listed =>
        \A i \in 1..Len(entries) :
            LET ni == entries[i].name_identifier
            IN  /\ IsSome(ni) =>
                      \E p \in IdentifierPositions(renditionkeyfmt) :
                          p <= KeySlots /\ ni[1] = imagedb[i].key[p]
                /\ ~IsSome(ni) => IdentifierPositions(renditionkeyfmt) = {}

\* C3 (amended): NameIdentifier is the value of the key slot at the first
\* of the first 18 positions of the key format that holds Identifier, and
\* it is absent exactly when none of the first 18 positions does.
C3_NameIdentifierFirst18 ==
    Listed =>
        \A i \in 1..Len(entries) :
            LET ni == entries[i].name_identifier
                ps == {p \in IdentifierPositions(renditionkeyfmt) : p <= KeySlots}
            IN  IF ps = {} THEN ni = None
                ELSE ni = Some(imagedb[i].key[CHOOSE p \in ps : \A q \in ps : p <= q])

\* C3's case: under the fixture's key format, whose 12th position holds
\* Identifier (ordinal 17), the key 101..118 is listed with identifier 112.
C3_Witness ==
    /\ Listed
    /\ renditionkeyfmt = FixtureKeyFormat
    /\ \E i \in 1..Len(entries) :
          /\ imagedb[i].key[KeySlots] = 100 + KeySlots
          /\ entries[i].name_identifier = Some(112)

\* Does the token of a FACETKEYS entry bind the identifier id (its first
\* Identifier attribute has the value id)?
Binds(facet, id) ==
    \E a \in 1..Len(facet.attributes) :
        /\ facet.attributes[a].name = "Identifier"
        /\ facet.attributes[a].value = id
        /\ \A b \in 1..(a - 1) : facet.attributes[b].name # "Identifier"

NameCount(name) == Cardinality({j \in 1..Len(facetkeysdb) : facetkeysdb[j].name = name})

\* C4 (as claimed): a name the facet lookup yields occurs exactly once in
\* FACETKEYS.
C4_NameOccursOnce ==
    Listed =>
        \A i \in 1..Len(entries) :
            IsSome(entries[i].name) => NameCount(entries[i].name[1]) = 1

\* C4 (amended): a name the facet lookup yields is the name of the last
\* FACETKEYS entry whose token binds the rendition's identifier, so it
\* occurs at least once in FACETKEYS; it occurs exactly once when no two
\* FACETKEYS entries share a name.
C4_NameOfLastBinding ==
    Listed =>
        \A i \in 1..Len(entries) :
            IsSome(entries[i].name) =>
                /\ IsSome(entries[i].name_identifier)
                /\ \E j \in 1..Len(facetkeysdb) :
                      /\ facetkeysdb[j].name = entries[i].name[1]
                      /\ Binds(facetkeysdb[j], entries[i].name_identifier[1])
                      /\ \A k \in (j + 1)..Len(facetkeysdb) :
                            ~Binds(facetkeysdb[k], entries[i].name_identifier[1])
                /\ NameCount(entries[i].name[1]) >= 1
                /\ (\A j, k \in 1..Len(facetkeysdb) :
                        facetkeysdb[j].name = facetkeysdb[k].name => j = k)
                   => NameCount(entries[i].name[1]) = 1

\* C4's case: two FACETKEYS entries, "A" then "B", bind the identifier 112,
\* and a rendition with that identifier is listed under the name "B".
C4_Witness ==
    /\ Listed
    /\ Len(facetkeysdb) = 2
    /\ facetkeysdb[1].name = <<65>> /\ Binds(facetkeysdb[1], 112)
    /\ facetkeysdb[2].name = <<66>> /\ Binds(facetkeysdb[2], 112)
    /\ \E i \in 1..Len(entries) :
          entries[i].name_identifier = Some(112) /\ entries[i].name = Some(<<66>>)

\* ------------------------------------------------------------------------
\* The rendition extractor: csi::Header::extract.

\* A u16 as its two bytes, least significant first.
U16(n) == <<n % 256, n \div 256>>

\* lzfse_rust::decode_bytes on a stream of one uncompressed block: the
\* block magic "bvx-", the u32 count of raw bytes, the raw bytes, and the
\* end-of-stream magic "bvx$".  Anything else the model draws is no LZFSE
\* stream, and decoding it fails.
LzfseRawBlockMagic == <<98, 118, 120, 45>>
LzfseEndOfStreamMagic == <<98, 118, 120, 36>>

LzfseDecode(raw) ==
    IF /\ Len(raw) >= 12
       /\ SubSeq(raw, 1, 4) = LzfseRawBlockMagic
       /\ IsSmall(SubSeq(raw, 5, 8))
       /\ Len(raw) = 12 + ToNat(SubSeq(raw, 5, 8))
       /\ SubSeq(raw, Len(raw) - 3, Len(raw)) = LzfseEndOfStreamMagic
    THEN Some(SubSeq(raw, 9, Len(raw) - 4))
    ELSE None

\* The magic 0xCAFEF00D of a quantized image, as stored.
QuantizedImageMagic == <<13, 240, 254, 202>>

\* QuantizedImage::read_args(reader, (width, height)): the fields in
\* declaration order.  The count of data words, width * height / 2, is a
\* u32 expression evaluated once the color table is read.
\* [panic, image]; image is None when the read fails.
ReadQuantizedImage(stream, width, height, checks) ==
    LET header_ok == Len(stream) >= 10 /\ SubSeq(stream, 1, 4) = QuantizedImageMagic
        color_count == stream[9] + 256 * stream[10]
        table_end == 10 + 4 * color_count
        table_ok == header_ok /\ Len(stream) >= table_end
        product == Mul32(width, height, checks)
        count == Div32(product.value, 2)
        data_ok == IsSmall(count) /\ (Len(stream) - table_end) \div 2 >= ToNat(count)
    IN  IF ~table_ok THEN [panic |-> FALSE, image |-> None]
        ELSE IF product.panic THEN [panic |-> TRUE, image |-> None]
        ELSE IF ~data_ok THEN [panic |-> FALSE, image |-> None]
        ELSE [ panic |-> FALSE,
               image |-> Some(
                 [ color_count |-> color_count,
                   color_table |-> [c \in 1..color_count |->
                                      SubSeq(stream, 10 + 4 * c - 3, 10 + 4 * c)],
                   data |-> [w \in 1..ToNat(count) |->
                               stream[table_end + 2 * w - 1]
                               + 256 * stream[table_end + 2 * w]] ]) ]

\* PixelOf leaving the bytes of the entry as they are stored.
PixelOfAsStored(color) == color

\* The four bytes a palette entry puts into the buffer:
\* (c >> 8) & 0xff, (c >> 16) & 0xff, (c >> 24) & 0xff, (c >> 0) & 0xff.
PixelOf(color) == <<color[2], color[3], color[4], color[1]>>

\* QuantizedImage::extract from the i-th data word on: word i fills
\* buffer[8 * (i - 1) .. 8 * i] (0-based) from the palette entries indexed
\* by its high and its low byte.  An index outside the color table or the
\* buffer panics.  [panic, buffer].
RECURSIVE QuantizedImageExtract(_, _, _)
QuantizedImageExtract(image, buffer, i) ==
    IF i > Len(image.data) THEN [panic |-> FALSE, buffer |-> buffer]
    ELSE LET a == image.data[i] \div 256
             b == image.data[i] % 256
         IN  IF \/ a >= Len(image.color_table)
                \/ b >= Len(image.color_table)
                \/ 8 * i > Len(buffer)
             THEN [panic |-> TRUE, buffer |-> buffer]
             ELSE LET pixels == PixelOf(image.color_table[a + 1])
                                \o PixelOf(image.color_table[b + 1])
                  IN  QuantizedImageExtract(
                          image,
                          [k \in 1..Len(buffer) |->
                              IF k > 8 * (i - 1) /\ k <= 8 * i
                              THEN pixels[k - 8 * (i - 1)]
                              ELSE buffer[k]],
                          i + 1)

\* `self.width * self.height * 4` in u32.
ImageSize(csi_header, checks) ==
    LET product == Mul32(csi_header.width, csi_header.height, checks)
        size == Mul32(product.value, U32(4), checks)
    IN  [panic |-> product.panic \/ size.panic, value |-> size.value]

\* Path::new(path).join(&name), for the one destination directory of a run.
OutputPath(name) == <<"output_path", name>>

\* fs::write and File::create succeed when the file system lets them; the
\* path of an empty name is the destination directory itself, which cannot
\* be opened as a file.
CanCreate(name, io_ok) == io_ok /\ Len(name) > 0

\* The content of a file of the destination directory.
Verbatim(bytes) == [encoding |-> "verbatim", width |-> None, height |-> None, bytes |-> bytes]
Png(width, height, pixels) ==
    [encoding |-> "png", width |-> Some(width), height |-> Some(height), bytes |-> pixels]
Incomplete == [encoding |-> "incomplete", width |-> None, height |-> None, bytes |-> <<>>]

\* What one call of extract did: its result ("Ok", "Err" or "Panic"), the
\* error, the file it wrote and, on the palette path, the decoded image and
\* the RGBA buffer.
Outcome(result, error, wrote, image, buffer) ==
    [result |-> result, error |-> error, wrote |-> wrote, image |-> image, buffer |-> buffer]

NoFile(result, error) == Outcome(result, error, None, None, None)

\* The arm of CompressionType::PaletteImg (csi.rs, 182-211).
ExtractPaletteImg(csi_header, name, io_ok, png_ok, checks) ==
    LET decoded == LzfseDecode(csi_header.rendition_data.raw_data)
    IN  IF ~IsSome(decoded) THEN NoFile("Err", Some("lzfse"))
        ELSE
        LET quantized == ReadQuantizedImage(decoded[1], csi_header.width,
                                            csi_header.height, checks)
        IN  IF quantized.panic THEN NoFile("Panic", Some("attempt to multiply with overflow"))
            ELSE IF ~IsSome(quantized.image) THEN NoFile("Err", Some("binrw"))
            ELSE
            LET image_size == ImageSize(csi_header, checks)
                zeroes == [k \in 1..ToNat(image_size.value) |-> 0]
                extracted == QuantizedImageExtract(quantized.image[1], zeroes, 1)
                path == OutputPath(name)
            IN  IF image_size.panic
                THEN NoFile("Panic", Some("attempt to multiply with overflow"))
                ELSE IF extracted.panic
                THEN NoFile("Panic", Some("index out of bounds"))
                ELSE IF ~CanCreate(name, io_ok)
                THEN Outcome("Err", Some("io"), None, quantized.image,
                             Some(extracted.buffer))
                ELSE IF ~png_ok
                THEN Outcome("Err", Some("png"),
                             Some([path |-> path, content |-> Incomplete]),
                             quantized.image, Some(extracted.buffer))
                ELSE Outcome("Ok", None,
                             Some([path |-> path,
                                   content |-> Png(csi_header.width, csi_header.height,
                                                   extracted.buffer)]),
                             quantized.image, Some(extracted.buffer))

\* ExtractTheme taking every compression type for PaletteImg.
ExtractThemeAnyCompression(csi_header, name, io_ok, png_ok, checks) ==
    ExtractPaletteImg(csi_header, name, io_ok, png_ok, checks)

\* The arm of Rendition::Theme: the match on compression_type.
ExtractTheme(csi_header, name, io_ok, png_ok, checks) ==
    IF csi_header.rendition_data.compression_type = "PaletteImg"
    THEN ExtractPaletteImg(csi_header, name, io_ok, png_ok, checks)
    ELSE NoFile("Err", Some("unhandled compression type"))

\* The arm of LayoutType32::Image: the match on rendition_data.
ExtractImage(csi_header, name, io_ok, png_ok, checks) ==
    CASE csi_header.rendition_data.variant = "RawData" ->
            IF CanCreate(name, io_ok)
            THEN Outcome("Ok", None,
                         Some([path |-> OutputPath(name),
                               content |-> Verbatim(csi_header.rendition_data.raw_data)]),
                         None, None)
            ELSE NoFile("Err", Some("io"))
      [] csi_header.rendition_data.variant = "Theme" ->
            ExtractTheme(csi_header, name, io_ok, png_ok, checks)
      [] OTHER -> NoFile("Err", Some("unhandled image type"))

\* Extract choosing its arm by the body alone, whatever the layout.
ExtractAnyLayout(csi_header, io_ok, png_ok, checks) ==
    ExtractImage(csi_header, ParsePaddedString(csi_header.name), io_ok, png_ok, checks)

\* csi::Header::extract: the match on csimetadata.layout.
Extract(csi_header, io_ok, png_ok, checks) ==
    IF csi_header.layout = "Image"
    THEN ExtractImage(csi_header, ParsePaddedString(csi_header.name), io_ok, png_ok, checks)
    ELSE NoFile("Ok", None)

\* A file written into the destination directory replaces the one at its
\* path.
WriteFile(directory, written) ==
    {f \in directory : f.path # written.path} \cup {written}

\* ------------------------------------------------------------------------
\* Inputs of the extract command.

\* An LZFSE stream of one uncompressed block holding the bytes.
LzfseRawBlock(bytes) ==
    LzfseRawBlockMagic \o U32(Len(bytes)) \o bytes \o LzfseEndOfStreamMagic

RECURSIVE Flatten(_)
Flatten(seqs) == IF Len(seqs) = 0 THEN <<>> ELSE seqs[1] \o Flatten(Tail(seqs))

\* The bytes of a quantized image: magic, version 1, the count of colors,
\* the color table, the data words.
QuantizedStream(color_table, data) ==
    QuantizedImageMagic \o U32(1) \o U16(Len(color_table))
    \o Flatten(color_table)
    \o Flatten([w \in 1..Len(data) |-> U16(data[w])])

\* Two palette entries.
Red == <<255, 0, 0, 255>>
Sea == <<128, 64, 32, 16>>

\* The renditions the extract command is given.
ExtractCsiSamples ==
    { \* layout Data, body RAWD
      CsiHeader("Data", <<77, 0>>, U32(0), U32(0), U32(100), U32(0), U32(14),
                RenditionData("RawData", "NA", <<72, 105>>)),
      \* layout Image, body RAWD; with a name, and with the empty name
      CsiHeader("Image", <<82, 0>>, U32(0), U32(0), U32(100), U32(0), U32(14),
                RenditionData("RawData", "NA", <<1, 2, 3>>)),
      CsiHeader("Image", <<0, 0>>, U32(0), U32(0), U32(100), U32(0), U32(14),
                RenditionData("RawData", "NA", <<9>>)),
      \* layout Color, body RLOC
      CsiHeader("Color", <<67, 0>>, U32(0), U32(0), U32(0), U32(0), U32(76),
                RenditionData("Color", "NA", <<>>)),
      \* layout Image, palette image 3 x 1: one data word, indices 0 and 1
      CsiHeader("Image", <<80, 0>>, U32(3), U32(1), U32(100), U32(0), U32(50),
                RenditionData("Theme", "PaletteImg",
                    LzfseRawBlock(QuantizedStream(<<Red, Sea>>, <<1>>)))),
      \* palette image 2 x 2: two data words
      CsiHeader("Image", <<82, 0>>, U32(2), U32(2), U32(100), U32(0), U32(50),
                RenditionData("Theme", "PaletteImg",
                    LzfseRawBlock(QuantizedStream(<<Red, Sea>>, <<256, 257>>)))),
      \* palette image 2 x 1 whose data word indexes entry 1 of a table of 1
      CsiHeader("Image", <<81, 0>>, U32(2), U32(1), U32(100), U32(0), U32(50),
                RenditionData("Theme", "PaletteImg",
                    LzfseRawBlock(QuantizedStream(<<Red>>, <<256>>)))),
      \* palette image 2^31 x 2: width * height is 2^32
      CsiHeader("Image", <<87, 0>>, <<0, 0, 0, 128>>, U32(2), U32(100), U32(0), U32(50),
                RenditionData("Theme", "PaletteImg",
                    LzfseRawBlock(QuantizedStream(<<Red>>, <<>>)))),
      \* palette image whose body is no LZFSE stream, and one whose stream
      \* holds no quantized image
      CsiHeader("Image", <<76, 0>>, U32(2), U32(1), U32(100), U32(0), U32(50),
                RenditionData("Theme", "PaletteImg", <<1, 2, 3>>)),
      CsiHeader("Image", <<75, 0>>, U32(2), U32(1), U32(100), U32(0), U32(50),
                RenditionData("Theme", "PaletteImg", LzfseRawBlock(<<1, 2, 3>>))),
      \* layout Image, body MLEC with another compression
      CsiHeader("Image", <<90, 0>>, U32(2), U32(1), U32(100), U32(0), U32(50),
                RenditionData("Theme", "LZFSE",
                    LzfseRawBlock(QuantizedStream(<<Red, Sea>>, <<1>>)))),
      \* layout Image, body MLEC + KCBC, compression PaletteImg
      CsiHeader("Image", <<66, 0>>, U32(2), U32(1), U32(100), U32(0), U32(50),
                RenditionData("ThemeCBCK", "PaletteImg",
                    LzfseRawBlock(QuantizedStream(<<Red, Sea>>, <<1>>)))),
      \* layout Image, unknown body
      CsiHeader("Image", <<85, 0>>, U32(2), U32(1), U32(100), U32(0), U32(50),
                RenditionData("Unknown", "NA", <<7>>)) }

\* ------------------------------------------------------------------------
\* The extract command (main.rs, Commands::Extract), from the point where
\* the catalog is loaded.

\* The key of the i-th rendition of a catalog: ascending with i.
ExtractKey(i) == [slot \in 1..KeySlots |-> 100 * i + slot]

InitExtract ==
    /\ overflow_checks \in BOOLEAN
    /\ pc = "extracting"
    /\ renditionkeyfmt = FixtureKeyFormat
    /\ facetkeysdb = <<>>
    /\ imagedb \in {[i \in 1..Len(headers) |-> [key |-> ExtractKey(i), csi |-> headers[i]]] :
                        headers \in SeqsUpTo(ExtractCsiSamples, MaxRenditions)}
    /\ entries = <<>>
    /\ attempts = <<>>
    /\ files = {}
    /\ stderr = <<>>
    /\ exit_code = None
    /\ StoreIdle
    /\ ReaderIdle
    /\ NoResult

\* One iteration of the loop: extract the next rendition and report an
\* error.  A panic ends the process with exit code 101.
ExtractRendition ==
    /\ pc = "extracting"
    /\ Len(attempts) < Len(imagedb)
    /\ \E io_ok, png_ok \in BOOLEAN :
          \E result \in {Extract(imagedb[Len(attempts) + 1].csi, io_ok, png_ok,
                                 overflow_checks)} :
              /\ attempts' = Append(attempts, result)
              /\ files' = IF IsSome(result.wrote)
                          THEN WriteFile(files, result.wrote[1])
                          ELSE files
              /\ stderr' = CASE result.result = "Err" ->
                                  Append(stderr, <<"Unable to extract", result.error[1]>>)
                             [] result.result = "Panic" ->
                                  Append(stderr, <<"panicked", result.error[1]>>)
                             [] OTHER -> stderr
              /\ pc' = IF result.result = "Panic" THEN "panicked" ELSE pc
              /\ exit_code' = IF result.result = "Panic" THEN Some(101) ELSE exit_code
    /\ UNCHANGED <<overflow_checks, renditionkeyfmt, facetkeysdb, imagedb, entries>>
    /\ UNCHANGED store_vars
    /\ UNCHANGED reader_vars
    /\ UNCHANGED json

\* The loop is over: main returns Ok(()).
ExtractFinished ==
    /\ pc = "extracting"
    /\ Len(attempts) = Len(imagedb)
    /\ pc' = "exited"
    /\ exit_code' = Some(0)
    /\ UNCHANGED <<overflow_checks, renditionkeyfmt, facetkeysdb, imagedb, entries,
                   attempts, files, stderr>>
    /\ UNCHANGED store_vars
    /\ UNCHANGED reader_vars
    /\ UNCHANGED json

NextExtract == ExtractRendition \/ ExtractFinished

SpecExtract == InitExtract /\ [][NextExtract]_vars

\* ------------------------------------------------------------------------
\* Claims about the extractor.  Attempt i is the extract call on rendition
\* i of imagedb.

IsPaletteImg(csi_header) ==
    /\ csi_header.layout = "Image"
    /\ csi_header.rendition_data.variant = "Theme"
    /\ csi_header.rendition_data.compression_type = "PaletteImg"

IsImageRaw(csi_header) ==
    csi_header.layout = "Image" /\ csi_header.rendition_data.variant = "RawData"

\* The file an extract call writes for raw bytes.
RawFileOf(csi_header) ==
    [ path |-> OutputPath(ParsePaddedString(csi_header.name)),
      content |-> Verbatim(csi_header.rendition_data.raw_data) ]

\* No later attempt wrote the path attempt i wrote.
NotOverwritten(i) ==
    \A j \in (i + 1)..Len(attempts) :
        IsSome(attempts[j].wrote) => attempts[j].wrote[1].path # attempts[i].wrote[1].path

\* C6 (as claimed): whenever palette extraction has filled its RGBA buffer,
\* the length of the buffer is width * height * 4 and each data word of the
\* quantized image has put its two pixels (8 bytes) into it, whatever the
\* width and the height are.
C6_PaletteBufferExact ==
    \A i \in 1..Len(attempts) :
        IsSome(attempts[i].buffer) =>
            LET csi_header == imagedb[i].csi
                buffer == attempts[i].buffer[1]
                image == attempts[i].image[1]
            IN  /\ NatEq(U32(Len(buffer)),
                         ExactMul(ExactMul(csi_header.width, csi_header.height), U32(4)))
                /\ \A w \in 1..Len(image.data) :
                      /\ 8 * w <= Len(buffer)
                      /\ SubSeq(buffer, 8 * w - 7, 8 * w)
                           = PixelOf(image.color_table[(image.data[w] \div 256) + 1])
                             \o PixelOf(image.color_table[(image.data[w] % 256) + 1])

ClaimedPath(csi_header) ==
    \/ csi_header.layout = "Data" /\ csi_header.rendition_data.variant = "RawData"
    \/ /\ csi_header.layout = "Image"
       /\ csi_header.rendition_data.variant \in {"Theme", "ThemeCBCK"}
       /\ csi_header.rendition_data.compression_type = "PaletteImg"

C9_BestEffort ==
    IsSome(exit_code) =>
        exit_code = Some(0) /\ Len(attempts) = Len(imagedb)

\* ------------------------------------------------------------------------
\* The BOM block store (bom/mod.rs).

\* anyhow::Result: a value, an error, or a panic that ends the process.
Ok(value) == [status |-> "Ok", value |-> value]
Err(error) == [status |-> "Err", value |-> error]
Panicked(message) == [status |-> "Panic", value |-> message]

\* The first result in order that is not Ok, or Ok of all the values: a
\* lazy map collected into a Result<Vec<_>>.
Collect(results) ==
    LET bad == {i \in DOMAIN results : results[i].status # "Ok"}
    IN  IF bad = {} THEN Ok([i \in DOMAIN results |-> results[i].value])
        ELSE results[CHOOSE i \in bad : \A j \in bad : i <= j]

\* dynamic_length_string_parser(length) on the `length` bytes it reads: the
\* bytes before the first NUL, decoded lossily.
DynamicLengthStringParser(buffer) ==
    Utf8Lossy(SubSeq(buffer, 1, FirstNul(buffer, 1) - 1))

\* Var, read from its stored form (block_id, name_length, name bytes).
ReadVar(stored) ==
    [block_id |-> stored.block_id, name |-> DynamicLengthStringParser(stored.name)]

\* bom::Storage::read on a file with the BOMStore magic: the block table
\* and the var table behind the two pointers of the header.
ReadStorage(stored) ==
    [ items |-> stored.items,
      vars |-> [i \in 1..Len(stored.vars) |-> ReadVar(stored.vars[i])] ]

\* Iterator::find on the vars: the first var of the name.
RECURSIVE FindVar(_, _, _)
FindVar(var_table, name, i) ==
    IF i > Len(var_table) THEN None
    ELSE IF var_table[i].name = name THEN Some(var_table[i])
    ELSE FindVar(var_table, name, i + 1)

\* Storage::get_named_block_id.
GetNamedBlockId(storage, name) ==
    LET var == FindVar(storage.vars, name, 1)
    IN  IF IsSome(var) THEN Ok(var[1].block_id)
        ELSE Err(<<"unable to find", name>>)

\* `self.block_storage.items[block_id as usize]`: indexing a Vec panics
\* past its end.
BlockRangeAt(storage, block_id) ==
    IF block_id >= Len(storage.items) THEN Panicked("index out of bounds")
    ELSE Ok(storage.items[block_id + 1])

\* Storage::get_named_block.
GetNamedBlock(storage, name) ==
    LET block_id == GetNamedBlockId(storage, name)
    IN  IF block_id.status # "Ok" THEN block_id
        ELSE BlockRangeAt(storage, block_id.value)

\* ------------------------------------------------------------------------
\* Inputs of the block store: files with the BOMStore magic, a block table
\* of three ranges and a var table.

MaxVars == 2

BlockRange(address, length) == [address |-> address, length |-> length]

\* Stored var names: "A", "B", "A" followed by NUL and "B", and the one
\* byte 0xFF, which is no UTF-8.
StoredVarNames == {<<65>>, <<66>>, <<65, 0, 66>>, <<255>>}

\* Stored vars: block ids inside and outside the block table.
StoredVars == [block_id : {1, 2, 7}, name : StoredVarNames]

\* The names asked for: "A", "B", "C" and U+FFFD.
LookupNames == {<<65>>, <<66>>, <<67>>, <<239, 191, 189>>}

\* The two addresses write_data puts the tables at.
BlockStorageAddress == 32768
VarStorageAddress == 28672

\* A file: is its magic BOMStore, its modification time, the var table and
\* the block table behind the pointers of its header, and its payloads by
\* address.
BomFile(modified, var_table, items, blocks) ==
    [ magic_ok |-> TRUE, modified |-> modified,
      block_storage |-> BlockStorageAddress, var_storage |-> VarStorageAddress,
      vars |-> var_table, items |-> items, blocks |-> blocks ]

TableFiles ==
    { BomFile(U32(1700000000), var_table,
              <<BlockRange(0, 0), BlockRange(512, 436), BlockRange(948, 1028)>>, <<>>) :
        var_table \in SeqsUpTo(StoredVars, MaxVars) }

\* ------------------------------------------------------------------------
\* Looking names up in a block store.

InitBom ==
    /\ overflow_checks = FALSE
    /\ pc = "bom"
    /\ renditionkeyfmt = FixtureKeyFormat
    /\ facetkeysdb = <<>>
    /\ imagedb = <<>>
    /\ entries = <<>>
    /\ attempts = <<>>
    /\ files = {}
    /\ stderr = <<>>
    /\ exit_code = None
    /\ file \in {Some(f) : f \in TableFiles}
    /\ bom_storage = None
    /\ lookup = None
    /\ catalog = None
    /\ loaded = None
    /\ ReaderIdle
    /\ NoResult

\* bom::Storage::read(&mut reader).
StorageRead ==
    /\ pc = "bom"
    /\ IsSome(file)
    /\ bom_storage = None
    /\ bom_storage' = Some(ReadStorage(file[1]))
    /\ UNCHANGED <<overflow_checks, pc, renditionkeyfmt, facetkeysdb, imagedb, entries>>
    /\ UNCHANGED extract_vars
    /\ UNCHANGED <<file, lookup, catalog, loaded>>
    /\ UNCHANGED reader_vars
    /\ UNCHANGED json

\* bom_storage.get_named_block(name).  A panic ends the process.
GetNamedBlockCall ==
    /\ pc = "bom"
    /\ IsSome(bom_storage)
    /\ \E name \in LookupNames :
          \E result \in {GetNamedBlock(bom_storage[1], name)} :
              /\ lookup' = Some([name |-> name, result |-> result])
              /\ pc' = IF result.status = "Panic" THEN "panicked" ELSE pc
              /\ exit_code' = IF result.status = "Panic" THEN Some(101) ELSE exit_code
    /\ UNCHANGED <<overflow_checks, renditionkeyfmt, facetkeysdb, imagedb, entries>>
    /\ UNCHANGED <<attempts, files, stderr>>
    /\ UNCHANGED <<file, bom_storage, catalog, loaded>>
    /\ UNCHANGED reader_vars
    /\ UNCHANGED json

NextBom == StorageRead \/ GetNamedBlockCall

SpecBom == InitBom /\ [][NextBom]_vars

\* ------------------------------------------------------------------------
\* Claims about the block store.

\* The positions of the stored var table whose name bytes are exactly the
\* bytes of the name.
StoredMatches(name) == {i \in 1..Len(file[1].vars) : file[1].vars[i].name = name}

\* C10 (as claimed): get_named_block(name) returns the block range at the
\* block id of the var-table entry whose stored name equals name byte for
\* byte, and a not-found error, neither a crash nor another range, when no
\* entry has that name.
C10_NamedBlockByteForByte ==
    IsSome(lookup) =>
        LET name == lookup[1].name
            result == lookup[1].result
            matches == StoredMatches(name)
        IN  /\ matches # {} =>
                 /\ result.status = "Ok"
                 /\ \E i \in matches :
                       /\ file[1].vars[i].block_id < Len(file[1].items)
                       /\ result.value = file[1].items[file[1].vars[i].block_id + 1]
            /\ matches = {} => result.status = "Err"

\* ------------------------------------------------------------------------
\* The catalog file: CarUtilAssetStorage::from and write_data
\* (coreui/car_util_asset_storage.rs).

\* The names of the vars, as bytes.
CARHEADER == <<67, 65, 82, 72, 69, 65, 68, 69, 82>>
EXTENDED_METADATA == <<69, 88, 84, 69, 78, 68, 69, 68, 95, 77, 69, 84, 65, 68, 65, 84, 65>>
KEYFORMAT == <<75, 69, 89, 70, 79, 82, 77, 65, 84>>
FACETKEYS == <<70, 65, 67, 69, 84, 75, 69, 89, 83>>
BITMAPKEYS == <<66, 73, 84, 77, 65, 80, 75, 69, 89, 83>>
RENDITIONS == <<82, 69, 78, 68, 73, 84, 73, 79, 78, 83>>
APPEARANCEKEYS == <<65, 80, 80, 69, 65, 82, 65, 78, 67, 69, 75, 69, 89, 83>>

\* A block of the file: the payload stored at an address, by its type,
\* with the number of bytes it takes.
Block(type, size, value) == [type |-> type, size |-> size, value |-> value]

\* T::read with the reader positioned at the address.  The read fails when
\* no payload of the type T starts there.
ReadAt(stored, address, type) ==
    IF address \in DOMAIN stored.blocks /\ stored.blocks[address].type = type
    THEN Ok(stored.blocks[address].value)
    ELSE Err("binrw")

\* Storage::get_typed_block: `items[block_id as usize]`, then the read.
GetTypedBlock(stored, block_id, type) ==
    LET block_range == BlockRangeAt(ReadStorage(stored), block_id)
    IN  IF block_range.status # "Ok" THEN block_range
        ELSE ReadAt(stored, block_range.value.address, type)

\* Storage::get_named_typed_block.
GetNamedTypedBlock(stored, name, type) ==
    LET block_range == GetNamedBlock(ReadStorage(stored), name)
    IN  IF block_range.status # "Ok" THEN block_range
        ELSE ReadAt(stored, block_range.value.address, type)

\* bom::Paths: is_leaf and the index pairs; count is the number of pairs,
\* forward and backward are not used by any reader.
Paths(is_leaf, indices) == [is_leaf |-> is_leaf, indices |-> indices]

\* Tree::items that leaves the pairs as (index0, index1).
TreeItemsAsStored(stored, tree) ==
    LET paths == GetTypedBlock(stored, tree.path_block_id, "Paths")
    IN  IF paths.status # "Ok" THEN paths
        ELSE Ok([i \in 1..Len(paths.value.indices) |->
                    <<paths.value.indices[i].index0, paths.value.indices[i].index1>>])

\* Tree::items: the index pairs of the Paths block of the tree, each as
\* (index1, index0).  is_leaf is read and not looked at.
TreeItems(stored, tree) ==
    LET paths == GetTypedBlock(stored, tree.path_block_id, "Paths")
    IN  IF paths.status # "Ok" THEN paths
        ELSE Ok([i \in 1..Len(paths.value.indices) |->
                    <<paths.value.indices[i].index1, paths.value.indices[i].index0>>])

\* One (key, value) of Tree::items_typed::<T, U>.
ItemTyped(stored, item, key_type, value_type) ==
    LET key == GetTypedBlock(stored, item[1], key_type)
        value == GetTypedBlock(stored, item[2], value_type)
    IN  IF key.status # "Ok" THEN key
        ELSE IF value.status # "Ok" THEN value
        ELSE Ok(<<key.value, value.value>>)

\* Tree::items_typed::<T, U>.
TreeItemsTyped(stored, tree, key_type, value_type) ==
    LET items == TreeItems(stored, tree)
    IN  IF items.status # "Ok" THEN items
        ELSE Collect([i \in 1..Len(items.value) |->
                        ItemTyped(stored, items.value[i], key_type, value_type)])

\* BlockRange::read_type: the read of a T within the `length` bytes from
\* the address of the range.
ReadType(stored, block_range, type) ==
    LET read == ReadAt(stored, block_range.address, type)
    IN  IF read.status = "Ok" /\ stored.blocks[block_range.address].size > block_range.length
        THEN Err("binrw")
        ELSE read

\* The closures of `from` start alike: the Paths block of a tree, read
\* through `items[tree.path_block_id as usize]` and read_type.
TreePaths(stored, tree) ==
    LET path_range == BlockRangeAt(ReadStorage(stored), tree.path_block_id)
    IN  IF path_range.status # "Ok" THEN path_range
        ELSE ReadType(stored, path_range.value, "Paths")

\* The `length` bytes of the file from `address`, where the payload `block`
\* starts: bytes that are told from others by where they are, how many they
\* are and what is stored there.
FileBytes(address, length, block) ==
    [address |-> address, length |-> length, block |-> block]

\* The bytes of a block table as stored (bom::BlockStorage): the count, then
\* an address and a length for each range.
BlockStorageSize(items) == 4 + 8 * Len(items)

\* The bytes of a var table as stored (bom::VarStorage): the count, then for
\* each var its block id, the length of its name and the name.
RECURSIVE VarStorageSize(_)
VarStorageSize(var_table) ==
    IF var_table = <<>> THEN 4
    ELSE 4 + 1 + Len(Head(var_table).name) + VarStorageSize(Tail(var_table))

\* The size of a file: the end of the last of its payloads and its two
\* tables.
FileSize(stored) ==
    LET ends == {a + stored.blocks[a].size : a \in DOMAIN stored.blocks}
                    \cup {stored.block_storage + BlockStorageSize(stored.items),
                          stored.var_storage + VarStorageSize(stored.vars)}
    IN  CHOOSE end \in ends : \A other \in ends : other <= end

\* BlockRange::read: the `length` bytes from the address of the range, both
\* as the block table has them; a range that ends past the end of the file
\* cannot be read.
ReadRange(stored, block_id) ==
    LET block_range == BlockRangeAt(ReadStorage(stored), block_id)
    IN  IF block_range.status # "Ok" THEN block_range
        ELSE IF /\ block_range.value.address \in DOMAIN stored.blocks
                /\ block_range.value.address + block_range.value.length <= FileSize(stored)
        THEN Ok(FileBytes(block_range.value.address, block_range.value.length,
                          stored.blocks[block_range.value.address]))
        ELSE Err("binrw")

\* The bytes read from a range where a payload of bytes starts: the payload,
\* cut at the length of the range or followed by the zero bytes between the
\* payloads.
BytesOf(read) ==
    [i \in 1..read.length |->
        IF i <= Len(read.block.value) THEN read.block.value[i] ELSE 0]

\* Result::ok and Result::unwrap_or_default keep a panic a panic.
OkOrNone(result) ==
    IF result.status = "Ok" THEN Ok(Some(result.value))
    ELSE IF result.status = "Err" THEN Ok(None)
    ELSE result

\* Result::unwrap: an error becomes a panic.
Unwrap(result) ==
    IF result.status = "Err" THEN Panicked("unwrap on an Err value")
    ELSE result

\* BTreeMap::insert into a map kept as a sequence of (key, value) in
\* ascending key order: the value of an equal key is replaced.
RECURSIVE BTreeInsert(_, _, _)
BTreeInsert(map, key, value) ==
    IF Len(map) = 0 THEN <<[key |-> key, csi |-> value]>>
    ELSE IF map[1].key = key THEN <<[key |-> key, csi |-> value]>> \o Tail(map)
    ELSE IF KeyLess(key, map[1].key) THEN <<[key |-> key, csi |-> value]>> \o map
    ELSE <<map[1]>> \o BTreeInsert(Tail(map), key, value)

\* Iterator::collect into a map whose order the model does not use: the
\* set of its (key, value), the last value of a key winning.
MapCollect(pairs) ==
    {pairs[i] : i \in {j \in 1..Len(pairs) :
                          \A k \in (j + 1)..Len(pairs) : pairs[k][1] # pairs[j][1]}}

\* Iterator::collect into a BTreeMap: the pairs inserted in order.
RECURSIVE BTreeCollect(_, _)
BTreeCollect(pairs, i) ==
    IF i = 0 THEN <<>>
    ELSE BTreeInsert(BTreeCollect(pairs, i - 1), pairs[i][1], pairs[i][2])

\* facetkeysdb (62-69): the FACETKEYS tree and its items as
\* (NullString, KeyToken), the name made a String.
FacetKeysDb(stored) ==
    LET tree == GetNamedTypedBlock(stored, FACETKEYS, "Tree")
    IN  IF tree.status # "Ok" THEN tree
        ELSE LET facetkeys == TreeItemsTyped(stored, tree.value, "NullString", "KeyToken")
             IN  IF facetkeys.status # "Ok" THEN facetkeys
                 ELSE Ok([i \in 1..Len(facetkeys.value) |->
                            [ name |-> Utf8Lossy(facetkeys.value[i][1]),
                              attributes |-> facetkeys.value[i][2] ]])

\* bitmapkeys (71-90), before `.ok()`.
BitmapKeys(stored) ==
    LET tree == GetNamedTypedBlock(stored, BITMAPKEYS, "Tree")
    IN  IF tree.status # "Ok" THEN tree
        ELSE LET path == TreePaths(stored, tree.value)
             IN  IF path.status # "Ok" THEN path
                 ELSE Collect([i \in 1..Len(path.value.indices) |->
                        LET value == GetTypedBlock(stored, path.value.indices[i].index0,
                                                   "bitmap::Key")
                        IN  IF value.status # "Ok" THEN value
                            ELSE Ok(<<path.value.indices[i].index1, value.value>>)])

\* Sha256 of bytes: the digest is a value of its own for each run of bytes.
Sha256(bytes) == <<"sha256", bytes>>

\* rendition_sha_digests (92-116), before `.unwrap_or_default()`.  The key
\* is read with unwrap.
RenditionShaDigests(stored) ==
    LET tree == GetNamedTypedBlock(stored, RENDITIONS, "Tree")
    IN  IF tree.status # "Ok" THEN tree
        ELSE LET path == TreePaths(stored, tree.value)
             IN  IF path.status # "Ok" THEN path
                 ELSE
                 LET digests == Collect([i \in 1..Len(path.value.indices) |->
                        LET key_range == BlockRangeAt(ReadStorage(stored),
                                                      path.value.indices[i].index1)
                            key == Unwrap(ReadAt(stored, key_range.value.address, "Key"))
                            value == ReadRange(stored, path.value.indices[i].index0)
                        IN  IF key_range.status # "Ok" THEN key_range
                            ELSE IF key.status # "Ok" THEN key
                            ELSE IF value.status # "Ok" THEN value
                            ELSE Ok(<<key.value, Sha256(value.value)>>)])
                 IN  IF digests.status # "Ok" THEN digests
                     ELSE Ok(MapCollect(digests.value))

\* Result::unwrap_or_default for the digests: an error becomes the empty
\* map.
OrEmpty(result) == IF result.status = "Err" THEN Ok({}) ELSE result

\* imagedb (118-124), before `.unwrap()`.
ImageDb(stored) ==
    LET tree == GetNamedTypedBlock(stored, RENDITIONS, "Tree")
    IN  IF tree.status # "Ok" THEN tree
        ELSE LET images == TreeItemsTyped(stored, tree.value, "Key", "csi::Header")
             IN  IF images.status # "Ok" THEN images
                 ELSE Ok(BTreeCollect(images.value, Len(images.value)))

\* String::from_utf8 on the bytes the model draws: bytes below 0x80 are
\* UTF-8, a byte 0xF8..0xFF is not.
FromUtf8(bytes) ==
    IF \E i \in 1..Len(bytes) : bytes[i] >= 248 THEN Err("utf8") ELSE Ok(bytes)

\* appearancedb (126-147), before `.ok()`.
AppearanceDb(stored) ==
    LET tree == GetNamedTypedBlock(stored, APPEARANCEKEYS, "Tree")
    IN  IF tree.status # "Ok" THEN tree
        ELSE LET path == TreePaths(stored, tree.value)
             IN  IF path.status # "Ok" THEN path
                 ELSE
                 LET appearances == Collect([i \in 1..Len(path.value.indices) |->
                        LET key == GetTypedBlock(stored, path.value.indices[i].index0, "u32")
                            value == ReadRange(stored, path.value.indices[i].index1)
                        IN  IF key.status # "Ok" THEN key
                            ELSE IF value.status # "Ok" THEN value
                            ELSE IF FromUtf8(BytesOf(value.value)).status # "Ok"
                            THEN FromUtf8(BytesOf(value.value))
                            ELSE Ok(<<BytesOf(value.value), key.value>>)])
                 IN  IF appearances.status # "Ok" THEN appearances
                     ELSE Ok(MapCollect(appearances.value))

\* CarUtilAssetStorage::from on what is on disk.  Each step either gives
\* its value or ends the call: with its error where the code has `?`, with
\* a panic where it indexes the block table or unwraps.
CarUtilAssetStorageFrom(on_disk) ==
    IF ~IsSome(on_disk) THEN Err("io")
    ELSE IF ~on_disk[1].magic_ok THEN Err("binrw")
    ELSE
    LET stored == on_disk[1]
        car_header == GetNamedTypedBlock(stored, CARHEADER, "CarHeader")
        extended_metadata == GetNamedTypedBlock(stored, EXTENDED_METADATA,
                                                "CarExtendedMetadata")
        keyformat == GetNamedTypedBlock(stored, KEYFORMAT, "KeyFormat")
        facetkeys == FacetKeysDb(stored)
        bitmapkeys == OkOrNone(BitmapKeys(stored))
        digests == OrEmpty(RenditionShaDigests(stored))
        images == Unwrap(ImageDb(stored))
        appearances == OkOrNone(AppearanceDb(stored))
        steps == Collect(<<car_header, extended_metadata, keyformat, facetkeys,
                           bitmapkeys, digests, images, appearances>>)
    IN  IF steps.status # "Ok" THEN steps
        ELSE Ok([ header |->
                    [car_header.value EXCEPT
                        !.storage_timestamp = IF @ = U32(0) THEN stored.modified ELSE @],
                  extended_metadata |-> extended_metadata.value,
                  renditionkeyfmt |-> keyformat.value,
                  rendition_sha_digests |-> digests.value,
                  appearancedb |-> appearances.value,
                  facetkeysdb |-> facetkeys.value,
                  bitmapkeydb |-> bitmapkeys.value,
                  imagedb |-> Some(images.value) ])

\* ------------------------------------------------------------------------
\* write_data.

\* The sizes of the payloads as written: the fields of CarHeader and of
\* CarExtendedMetadata, Paths without indices, Tree, and KeyFormat with its
\* attribute types of four bytes each.
PaddedSize128 == 128
PaddedSize256 == 256
CarHeaderSize == 436
CarExtendedMetadataSize == 1028
EmptyPathsSize == 12
TreeSize == 21
KeyFormatSize(keyformat) == 12 + 4 * Len(keyformat.attribute_types)

\* The bytes of the BOMStore header.
BomHeaderSize == 32

\* bom::BlockStorage as write_data uses it: a block table that starts with
\* the reserved block 0, gives the address after the header and after the
\* payloads so far, and takes the range from an address to a position.
BlockStorageNew == [items |-> <<BlockRange(0, 0)>>]

NextItemAddress(block_storage) ==
    LET last == block_storage.items[Len(block_storage.items)]
    IN  IF Len(block_storage.items) = 1 THEN BomHeaderSize
        ELSE last.address + last.length

AddItem(block_storage, address, position) ==
    [items |-> Append(block_storage.items, BlockRange(address, position - address))]

\* The block id add_item returns: the index of the range it appended.
LastBlockId(block_storage) == Len(block_storage.items) - 1

\* bom::Var::from(name, block_id), as stored.
VarFrom(name, block_id) == [block_id |-> block_id, name |-> name]

\* CarHeader as BinWrite serializes it: its fields in their order, a u32 as
\* its four bytes and a byte array as its bytes.
WriteCarHeaderWithoutUuid(header) ==
    header.magic \o header.core_ui_version \o header.storage_version
    \o header.storage_timestamp \o header.rendition_count
    \o header.main_version_string \o header.version_string
    \o header.associated_checksum \o header.schema_version
    \o header.color_space_id \o header.key_semantics

WriteCarHeader(header) ==
    header.magic \o header.core_ui_version \o header.storage_version
    \o header.storage_timestamp \o header.rendition_count
    \o header.main_version_string \o header.version_string \o header.uuid
    \o header.associated_checksum \o header.schema_version
    \o header.color_space_id \o header.key_semantics

\* CarExtendedMetadata as BinWrite serializes it.
WriteCarExtendedMetadata(extended_metadata) ==
    extended_metadata.magic \o extended_metadata.thinning_arguments
    \o extended_metadata.deployment_platform_version
    \o extended_metadata.deployment_platform \o extended_metadata.authoring_tool

\* The file write_data writes for a store, at a modification time.
WriteDataFile(store, modified) ==
    LET storage0 == BlockStorageNew
        \* header
        header_address == NextItemAddress(storage0)
        storage1 == AddItem(storage0, header_address,
                            header_address + Len(WriteCarHeader(store.header)))
        header_block_id == LastBlockId(storage1)
        \* extended header
        extended_address == NextItemAddress(storage1)
        storage2 == AddItem(storage1, extended_address,
                            extended_address
                                + Len(WriteCarExtendedMetadata(store.extended_metadata)))
        extended_header_block_id == LastBlockId(storage2)
        \* rendition key fmt
        keyformat_address == NextItemAddress(storage2)
        storage3 == AddItem(storage2, keyformat_address,
                            keyformat_address + KeyFormatSize(store.renditionkeyfmt))
        rendition_key_format_block_id == LastBlockId(storage3)
        \* empty path for renditions
        paths_address == NextItemAddress(storage3)
        storage4 == AddItem(storage3, paths_address, paths_address + EmptyPathsSize)
        paths_block_id == LastBlockId(storage4)
        \* empty tree for renditions
        tree_address == NextItemAddress(storage4)
        storage5 == AddItem(storage4, tree_address, tree_address + TreeSize)
        tree_block_id == LastBlockId(storage5)
    IN  BomFile(modified,
                << VarFrom(CARHEADER, header_block_id),
                   VarFrom(EXTENDED_METADATA, extended_header_block_id),
                   VarFrom(KEYFORMAT, rendition_key_format_block_id),
                   VarFrom(RENDITIONS, tree_block_id) >>,
                storage5.items,
                (header_address :> Block("CarHeader", Len(WriteCarHeader(store.header)),
                                          store.header))
                @@ (extended_address :> Block("CarExtendedMetadata",
                                              Len(WriteCarExtendedMetadata(
                                                      store.extended_metadata)),
                                              store.extended_metadata))
                @@ (keyformat_address :> Block("KeyFormat",
                                               KeyFormatSize(store.renditionkeyfmt),
                                               store.renditionkeyfmt))
                @@ (paths_address :> Block("Paths", EmptyPathsSize, Paths(1, <<>>)))
                @@ (tree_address :> Block("Tree", TreeSize,
                                          [path_block_id |-> paths_block_id])))

\* ------------------------------------------------------------------------
\* Inputs of the catalog file: the stores given to write_data and the files
\* found on disk.

\* common::str_to_sized_slice128 and str_to_sized_slice256 for a string
\* that fits: the bytes of the string, then zeroes.
StrToSizedSlice(string, size) ==
    [i \in 1..size |-> IF i <= Len(string) THEN string[i] ELSE 0]

\* A CarHeader as actool::compile builds it, but for its timestamp.
CarHeaderOf(storage_timestamp) ==
    [ magic |-> <<82, 65, 84, 67>>,
      core_ui_version |-> U32(802),
      storage_version |-> U32(17),
      storage_timestamp |-> storage_timestamp,
      rendition_count |-> U32(0),
      main_version_string |-> StrToSizedSlice(<<64, 40, 35, 41>>, PaddedSize128),
      version_string |-> StrToSizedSlice(<<88, 99, 111, 100, 101>>, PaddedSize256),
      uuid |-> [i \in 1..16 |-> 0],
      associated_checksum |-> U32(0),
      schema_version |-> U32(5),
      color_space_id |-> U32(0),
      key_semantics |-> U32(0) ]

CarExtendedMetadataOf(authoring_tool) ==
    [ magic |-> <<65, 84, 69, 77>>,
      thinning_arguments |-> StrToSizedSlice(<<>>, PaddedSize256),
      deployment_platform_version |-> StrToSizedSlice(<<49, 50, 46, 48>>, PaddedSize256),
      deployment_platform |-> StrToSizedSlice(<<105, 111, 115>>, PaddedSize256),
      authoring_tool |-> StrToSizedSlice(authoring_tool, PaddedSize256) ]

KeyFormatOf(attribute_types) == [attribute_types |-> attribute_types]

\* The bytes of the payloads write_data appends after the BOMStore header,
\* for a key format of `count` attribute types.
PayloadAreaSize(count) ==
    CarHeaderSize + CarExtendedMetadataSize + (12 + 4 * count) + EmptyPathsSize + TreeSize

\* The least number of attribute types with which the payloads written
\* after the header reach past the address of the var table.
OverrunCount ==
    CHOOSE count \in 0..VarStorageAddress :
        /\ BomHeaderSize + PayloadAreaSize(count) > VarStorageAddress
        /\ \A fewer \in 0..(count - 1) :
              BomHeaderSize + PayloadAreaSize(fewer) <= VarStorageAddress

\* A key format of that many attribute types, as a KEYFORMAT block whose
\* _max_count is that number gives.
LongKeyFormat == [i \in 1..OverrunCount |-> "Scale"]

\* The stores given to write_data: the timestamp 0 of actool::compile or
\* another; no attribute types, the fixture's, or the long key format; two
\* authoring tools.
CatalogSamples ==
    { [ header |-> CarHeaderOf(timestamp),
        extended_metadata |-> CarExtendedMetadataOf(tool),
        renditionkeyfmt |-> KeyFormatOf(attribute_types),
        imagedb |-> Some(<<>>) ] :
        timestamp \in {U32(0), U32(1600000000)},
        tool \in {<<64>>, <<65, 66>>},
        attribute_types \in {<<>>, FixtureKeyFormat, LongKeyFormat} }

\* The modification times of a written file.
ModifiedSamples == {U32(1700000000), U32(1700000060)}

\* A file whose payload k is block k, at address 512 * k.
FileOf(var_table, payloads) ==
    BomFile(U32(1650000000), var_table,
            <<BlockRange(0, 0)>> \o [k \in 1..Len(payloads) |->
                                        BlockRange(512 * k, payloads[k].size)],
            [a \in {512 * k : k \in 1..Len(payloads)} |-> payloads[a \div 512]])

\* The payloads of a catalog of one facet and one rendition, then of its
\* appearances and bitmap keys.
FixturePayloads(timestamp) ==
    << Block("CarHeader", CarHeaderSize, CarHeaderOf(timestamp)),
       Block("CarExtendedMetadata", CarExtendedMetadataSize, CarExtendedMetadataOf(<<64>>)),
       Block("KeyFormat", 84, KeyFormatOf(FixtureKeyFormat)),
       Block("Tree", TreeSize, [path_block_id |-> 5]),
       Block("Paths", 20, Paths(1, <<[index0 |-> 7, index1 |-> 6]>>)),
       Block("NullString", 2, <<65>>),
       Block("KeyToken", 12, << [name |-> "Identifier", value |-> 112] >>),
       Block("Tree", TreeSize, [path_block_id |-> 9]),
       Block("Paths", 20, Paths(1, <<[index0 |-> 11, index1 |-> 10]>>)),
       Block("Key", 36, [i \in 1..KeySlots |-> 100 + i]),
       Block("csi::Header", 260,
             CsiHeader("Color", <<77, 0>>, U32(0), U32(0), U32(0), U32(0), U32(76),
                       RenditionData("Color", "NA", <<>>))),
       Block("Tree", TreeSize, [path_block_id |-> 13]),
       Block("Paths", 20, Paths(1, <<[index0 |-> 14, index1 |-> 15]>>)),
       Block("u32", 4, U32(1)),
       Block("bytes", 2, <<68, 107>>),
       Block("Tree", TreeSize, [path_block_id |-> 17]),
       Block("Paths", 20, Paths(1, <<[index0 |-> 18, index1 |-> 112]>>)),
       Block("bitmap::Key", 22, <<1, 2>>) >>

RequiredVars ==
    << VarFrom(CARHEADER, 1), VarFrom(EXTENDED_METADATA, 2), VarFrom(KEYFORMAT, 3),
       VarFrom(FACETKEYS, 4) >>

\* The vars of a catalog with appearances and bitmap keys.
AllVars ==
    RequiredVars \o <<VarFrom(RENDITIONS, 8), VarFrom(APPEARANCEKEYS, 12),
                      VarFrom(BITMAPKEYS, 16)>>

\* The payloads of the catalog with one of them replaced: a bitmap key that
\* is no bitmap::Key, an appearance name that is no UTF-8, a rendition that
\* is no csi::Header, a FACETKEYS tree whose path_block_id is outside the
\* block table, a FACETKEYS index pair whose value block id is outside it.
DamagedPayloads ==
    { [FixturePayloads(U32(1500000000)) EXCEPT ![18] = Block("bytes", 2, <<0, 0>>)],
      [FixturePayloads(U32(1500000000)) EXCEPT ![15] = Block("bytes", 2, <<255, 107>>)],
      [FixturePayloads(U32(1500000000)) EXCEPT ![11] = Block("bytes", 4, <<0, 0, 0, 0>>)],
      [FixturePayloads(U32(1500000000)) EXCEPT ![4] = Block("Tree", TreeSize,
                                                            [path_block_id |-> 99])],
      [FixturePayloads(U32(1500000000)) EXCEPT ![5] =
          Block("Paths", 20, Paths(1, <<[index0 |-> 99, index1 |-> 6]>>))] }

\* Lengths the block table has for the block of the CSI record of 260
\* bytes, block 11.
CsiBlockLengths == {100, 300}

\* The files found on disk: a catalog, with its timestamp and without; one
\* with appearances and bitmap keys; one without RENDITIONS; one whose
\* CARHEADER has a block id outside the block table; one that is no BOM;
\* the catalogs of damaged payloads; catalogs whose block table has
\* another length for the CSI record than the record has.
StoreFiles ==
    { FileOf(RequiredVars \o <<VarFrom(RENDITIONS, 8)>>, FixturePayloads(U32(1500000000))),
      FileOf(RequiredVars \o <<VarFrom(RENDITIONS, 8)>>, FixturePayloads(U32(0))),
      FileOf(RequiredVars \o <<VarFrom(RENDITIONS, 8), VarFrom(APPEARANCEKEYS, 12),
                               VarFrom(BITMAPKEYS, 16)>>,
             FixturePayloads(U32(1500000000))),
      FileOf(RequiredVars, FixturePayloads(U32(1500000000))),
      FileOf(<<VarFrom(CARHEADER, 99)>>, FixturePayloads(U32(1500000000))),
      [FileOf(RequiredVars, FixturePayloads(U32(0))) EXCEPT !.magic_ok = FALSE] }
    \cup {FileOf(AllVars, payloads) : payloads \in DamagedPayloads}
    \cup {[FileOf(AllVars, FixturePayloads(U32(1500000000)))
               EXCEPT !.items[12] = BlockRange(512 * 11, length)] :
              length \in CsiBlockLengths}

\* ------------------------------------------------------------------------
\* Writing a catalog file and loading it.

InitStore ==
    /\ overflow_checks = FALSE
    /\ pc = "store"
    /\ renditionkeyfmt = FixtureKeyFormat
    /\ facetkeysdb = <<>>
    /\ imagedb = <<>>
    /\ entries = <<>>
    /\ attempts = <<>>
    /\ files = {}
    /\ stderr = <<>>
    /\ exit_code = None
    /\ file \in {None} \cup {Some(f) : f \in StoreFiles}
    /\ bom_storage = None
    /\ lookup = None
    /\ catalog \in {Some(c) : c \in CatalogSamples}
    /\ loaded = None
    /\ ReaderIdle
    /\ NoResult

\* car.write_data(path): the file is replaced; what was loaded from the
\* file before is of no account any more.
WriteData ==
    /\ pc = "store"
    /\ IsSome(catalog)
    /\ \E modified \in ModifiedSamples :
          file' = Some(WriteDataFile(catalog[1], modified))
    /\ loaded' = None
    /\ UNCHANGED <<overflow_checks, pc, renditionkeyfmt, facetkeysdb, imagedb, entries>>
    /\ UNCHANGED extract_vars
    /\ UNCHANGED <<bom_storage, lookup, catalog>>
    /\ UNCHANGED reader_vars
    /\ UNCHANGED json

\* CarUtilAssetStorage::from(path, false).  A panic ends the process.
From ==
    /\ pc = "store"
    /\ loaded = None
    /\ \E result \in {CarUtilAssetStorageFrom(file)} :
          /\ loaded' = Some(result)
          /\ pc' = IF result.status = "Panic" THEN "panicked" ELSE pc
          /\ exit_code' = IF result.status = "Panic" THEN Some(101) ELSE exit_code
    /\ UNCHANGED <<overflow_checks, renditionkeyfmt, facetkeysdb, imagedb, entries>>
    /\ UNCHANGED <<attempts, files, stderr>>
    /\ UNCHANGED <<file, bom_storage, lookup, catalog>>
    /\ UNCHANGED reader_vars
    /\ UNCHANGED json

NextStore == WriteData \/ From

SpecStore == InitStore /\ [][NextStore]_vars

\* ------------------------------------------------------------------------
\* Claims about the catalog file.

\* The file on disk is the one write_data writes for the catalog.
Written ==
    /\ IsSome(file)
    /\ IsSome(catalog)
    /\ \E modified \in ModifiedSamples : file[1] = WriteDataFile(catalog[1], modified)

\* C5 (as claimed): loading the file write_data wrote for a catalog
\* succeeds, and the CARHEADER, EXTENDED_METADATA, KEYFORMAT and
\* RENDITIONS loaded are those of the catalog, field for field.
C5_RoundTrip ==
    (Written /\ IsSome(loaded)) =>
        /\ loaded[1].status = "Ok"
        /\ loaded[1].value.header = catalog[1].header
        /\ loaded[1].value.extended_metadata = catalog[1].extended_metadata
        /\ loaded[1].value.renditionkeyfmt = catalog[1].renditionkeyfmt
        /\ loaded[1].value.imagedb = catalog[1].imagedb


\* ---------------------------------------------------------------------------
\* coreui::rendition::Rendition, read from the bytes of a CSI record's body.
\* The reader is little-endian (csi::Header); a u32 is the four stored bytes.

\* The bytes [offset, offset + count) of a stream.
Take(bytes, offset, count) == SubSeq(bytes, offset + 1, offset + count)

\* Whether `count` elements of `width` bytes each can be read at `offset`,
\* `count` being a stored u32: a read past the end is an error of the reader.
CanRead(bytes, offset, count, width) ==
    /\ Len(bytes) >= offset
    /\ IsSmall(count)
    /\ ToNat(count) <= (Len(bytes) - offset) \div width

\* Vec<T> read with #[br(count = n)] at `offset`, T of `width` bytes.
ReadVec(bytes, offset, count, width) ==
    [i \in 1..ToNat(count) |-> Take(bytes, offset + (i - 1) * width, width)]

\* common::RawData read with #[br(count = n)] at `offset`.
ReadRawData(bytes, offset, count) == Take(bytes, offset, ToNat(count))

\* The magics of the variants, as stored.
MagicRLOC == <<82, 76, 79, 67>>
MagicDWAR == <<68, 87, 65, 82>>
MagicMLEC == <<77, 76, 69, 67>>
MagicKCBC == <<75, 67, 66, 67>>
MagicSISM == <<83, 73, 83, 77>>

\* Whether a stream has `magic` at `offset`.
HasMagic(bytes, offset, magic) ==
    /\ Len(bytes) >= offset + 4
    /\ Take(bytes, offset, 4) = magic

\* CompressionType, #[br(repr = u32)]: the declared values, in order from 0.
CompressionTypes ==
    <<"Uncompressed", "RLE", "ZIP", "LZVN", "LZFSE", "JPEGLZFSE", "Blurred",
      "ASTC", "PaletteImg", "HEVC", "DeepMapLZFSE", "DeepMap2">>

\* Whether a stored u32 is a declared CompressionType.
IsCompressionType(word) == IsSmall(word) /\ ToNat(word) < Len(CompressionTypes)

\* The CompressionType of a declared value.
CompressionTypeOf(word) == CompressionTypes[ToNat(word) + 1]

\* Idiom, #[br(repr = u16)]: Universal = 0 up to Marketing = 6.
IdiomCount == 7

\* Whether a MultisizeImageSetEntry of 12 bytes has a declared Idiom.
IsEntry(entry) == entry[12] = 0 /\ entry[11] < IdiomCount

\* Rendition::Color.
ReadColor(bytes) ==
    IF /\ HasMagic(bytes, 0, MagicRLOC)
       /\ Len(bytes) >= 16
       /\ CanRead(bytes, 16, Take(bytes, 12, 4), 8)
    THEN Some([variant |-> "Color",
               version |-> Take(bytes, 4, 4),
               flags |-> Take(bytes, 8, 4),
               component_count |-> Take(bytes, 12, 4),
               components |-> ReadVec(bytes, 16, Take(bytes, 12, 4), 8)])
    ELSE None

\* Rendition::RawData.
ReadRawDataVariant(bytes) ==
    IF /\ HasMagic(bytes, 0, MagicDWAR)
       /\ Len(bytes) >= 12
       /\ CanRead(bytes, 12, Take(bytes, 8, 4), 1)
    THEN Some([variant |-> "RawData",
               version |-> Take(bytes, 4, 4),
               _raw_data_length |-> Take(bytes, 8, 4),
               raw_data |-> ReadRawData(bytes, 12, Take(bytes, 8, 4))])
    ELSE None

\* Rendition::ThemeCBCK with the KCBC magic looked for at `magic_offset`; the
\* fields a, b, c, _raw_data_length and raw_data follow the magic.
ReadThemeCBCKAt(bytes, magic_offset) ==
    IF /\ HasMagic(bytes, 0, MagicMLEC)
       /\ Len(bytes) >= 12
       /\ IsCompressionType(Take(bytes, 8, 4))
       /\ HasMagic(bytes, magic_offset, MagicKCBC)
       /\ Len(bytes) >= magic_offset + 20
       /\ CanRead(bytes, magic_offset + 20, Take(bytes, magic_offset + 16, 4), 1)
    THEN Some([variant |-> "ThemeCBCK",
               version |-> Take(bytes, 4, 4),
               compression_type |-> CompressionTypeOf(Take(bytes, 8, 4)),
               a |-> Take(bytes, magic_offset + 4, 4),
               b |-> Take(bytes, magic_offset + 8, 4),
               c |-> Take(bytes, magic_offset + 12, 4),
               _raw_data_length |-> Take(bytes, magic_offset + 16, 4),
               raw_data |-> ReadRawData(bytes, magic_offset + 20,
                                        Take(bytes, magic_offset + 16, 4))])
    ELSE None

\* ThemeCBCK with the KCBC magic right after compression_type.
ReadThemeCBCKAfterCompression(bytes) == ReadThemeCBCKAt(bytes, 12)

\* Rendition::ThemeCBCK: version, compression_type and idk come before the
\* KCBC magic, which is at offset 16 of the body.
ReadThemeCBCK(bytes) == ReadThemeCBCKAt(bytes, 16)

\* Rendition::Theme.
ReadTheme(bytes) ==
    IF /\ HasMagic(bytes, 0, MagicMLEC)
       /\ Len(bytes) >= 16
       /\ IsCompressionType(Take(bytes, 8, 4))
       /\ CanRead(bytes, 16, Take(bytes, 12, 4), 1)
    THEN Some([variant |-> "Theme",
               version |-> Take(bytes, 4, 4),
               compression_type |-> CompressionTypeOf(Take(bytes, 8, 4)),
               _raw_data_length |-> Take(bytes, 12, 4),
               raw_data |-> ReadRawData(bytes, 16, Take(bytes, 12, 4))])
    ELSE None

\* Rendition::MultisizeImageSet.
ReadMultisizeImageSet(bytes) ==
    IF /\ HasMagic(bytes, 0, MagicSISM)
       /\ Len(bytes) >= 12
       /\ CanRead(bytes, 12, Take(bytes, 8, 4), 12)
       /\ \A i \in 1..ToNat(Take(bytes, 8, 4)) :
              IsEntry(ReadVec(bytes, 12, Take(bytes, 8, 4), 12)[i])
    THEN Some([variant |-> "MultisizeImageSet",
               version |-> Take(bytes, 4, 4),
               sizes_count |-> Take(bytes, 8, 4),
               entries |-> ReadVec(bytes, 12, Take(bytes, 8, 4), 12)])
    ELSE None

\* Rendition::Unknown read with `count` as the number of raw_data bytes.
ReadUnknownCounting(bytes, count) ==
    IF /\ Len(bytes) >= 12
       /\ CanRead(bytes, 12, count, 1)
    THEN Some([variant |-> "Unknown",
               tag |-> Take(bytes, 0, 4),
               version |-> Take(bytes, 4, 4),
               _raw_data_length |-> Take(bytes, 8, 4),
               raw_data |-> ReadRawData(bytes, 12, count)])
    ELSE None

\* Unknown that keeps no raw_data.
ReadUnknownEmpty(bytes) == ReadUnknownCounting(bytes, U32(0))

\* Rendition::Unknown: no magic, so it is tried on every body.
ReadUnknown(bytes) ==
    IF Len(bytes) >= 12 THEN ReadUnknownCounting(bytes, Take(bytes, 8, 4))
    ELSE None

\* The first of the attempts that succeeded, None when none did.
FirstSome(attempted) ==
    IF \E i \in 1..Len(attempted) : IsSome(attempted[i])
    THEN attempted[CHOOSE i \in 1..Len(attempted) :
                       /\ IsSome(attempted[i])
                       /\ \A j \in 1..(i - 1) : ~IsSome(attempted[j])]
    ELSE None

\* The variants in declaration order, without the catch-all.
ReadDeclared(bytes) ==
    <<ReadColor(bytes), ReadRawDataVariant(bytes), ReadThemeCBCK(bytes),
      ReadTheme(bytes), ReadMultisizeImageSet(bytes)>>

\* <Rendition as BinRead>::read_options: the variants are tried in declaration
\* order, each from the start of the body; the first that reads is the value
\* and the read is an error only when every variant failed.
ReadRendition(bytes) ==
    IF IsSome(FirstSome(Append(ReadDeclared(bytes), ReadUnknown(bytes))))
    THEN Ok(FirstSome(Append(ReadDeclared(bytes), ReadUnknown(bytes)))[1])
    ELSE Err("EnumErrors")


\* ---------------------------------------------------------------------------
\* Reading one rendition body.

\* Every prefix of a stream, the empty one included: a stream cut short.
Prefixes(bytes) == {SubSeq(bytes, 1, n) : n \in 0..Len(bytes)}

\* Tags no variant declares.
MagicXXXX == <<88, 88, 88, 88>>
MagicRAWD == <<82, 65, 87, 68>>

\* Whole bodies, each followed by what comes after it in the file.
BodySamples ==
    { MagicXXXX \o U32(1) \o U32(2) \o <<7, 8, 9>>,
      MagicRAWD \o U32(1) \o U32(0) \o <<7>>,
      MagicXXXX \o U32(1) \o <<255, 255, 255, 255>> \o <<7, 8>>,
      MagicRLOC \o U32(1) \o U32(1) \o U32(1) \o <<1, 2, 3, 4, 5, 6, 7, 8>>,
      MagicDWAR \o U32(1) \o U32(2) \o <<7, 8>>,
      MagicMLEC \o U32(1) \o U32(8) \o U32(2) \o <<7, 8, 9>>,
      MagicMLEC \o U32(1) \o U32(4) \o U32(2) \o MagicKCBC
          \o U32(1) \o U32(2) \o U32(3) \o U32(2) \o <<7, 8>>,
      MagicMLEC \o U32(1) \o U32(4) \o MagicKCBC
          \o U32(1) \o U32(2) \o U32(3) \o U32(2) \o <<7, 8>>,
      MagicMLEC \o U32(1) \o U32(12) \o U32(2) \o <<7, 8, 9, 10, 11, 12, 13, 14>>,
      MagicMLEC \o U32(1) \o U32(200) \o U32(2) \o <<7, 8>>,
      MagicSISM \o U32(1) \o U32(1) \o U32(16) \o U32(16) \o <<0, 0, 1, 0>>,
      MagicSISM \o U32(1) \o U32(1) \o U32(16) \o U32(16) \o <<0, 0, 9, 0>> }

\* The bytes a reader can be positioned at.
Bodies == UNION {Prefixes(body) : body \in BodySamples}

InitRendition ==
    /\ overflow_checks = FALSE
    /\ pc = "rendition"
    /\ renditionkeyfmt = FixtureKeyFormat
    /\ facetkeysdb = <<>>
    /\ imagedb = <<>>
    /\ entries = <<>>
    /\ attempts = <<>>
    /\ files = {}
    /\ stderr = <<>>
    /\ exit_code = None
    /\ StoreIdle
    /\ reader \in {Some(body) : body \in Bodies}
    /\ parsed = None
    /\ NoResult

\* Rendition::read_options(reader, Endian::Little, ()).
RenditionRead ==
    /\ pc = "rendition"
    /\ IsSome(reader)
    /\ parsed = None
    /\ parsed' = Some(ReadRendition(reader[1]))
    /\ UNCHANGED <<overflow_checks, pc, renditionkeyfmt, facetkeysdb, imagedb, entries>>
    /\ UNCHANGED extract_vars
    /\ UNCHANGED store_vars
    /\ UNCHANGED <<reader, json>>

NextRendition == RenditionRead

SpecRendition == InitRendition /\ [][NextRendition]_vars

\* A rendition body has been read.
RenditionWasRead == pc = "rendition" /\ IsSome(reader) /\ IsSome(parsed)

\* The body read starts with a magic that is none of the declared ones.
UndeclaredMagic ==
    /\ RenditionWasRead
    /\ Len(reader[1]) >= 4
    /\ Take(reader[1], 0, 4) \notin {MagicRLOC, MagicDWAR, MagicMLEC, MagicSISM}

\* The body read starts with the MLEC magic.
IsMLEC == RenditionWasRead /\ HasMagic(reader[1], 0, MagicMLEC)

\* The read gave the variant `variant`.
ReadAs(variant) ==
    /\ parsed[1].status = "Ok"
    /\ parsed[1].value.variant = variant

\* The read gave Unknown with the tag, version, length and bytes of the body.
PreservedAsUnknown ==
    /\ ReadAs("Unknown")
    /\ parsed[1].value.tag = Take(reader[1], 0, 4)
    /\ parsed[1].value.version = Take(reader[1], 4, 4)
    /\ parsed[1].value._raw_data_length = Take(reader[1], 8, 4)
    /\ parsed[1].value.raw_data
           = Take(reader[1], 12, ToNat(parsed[1].value._raw_data_length))

\* The body holds the 12 bytes of tag, version and length and then the
\* number of bytes its length field declares.
HoldsDeclaredLength ==
    /\ Len(reader[1]) >= 12
    /\ CanRead(reader[1], 12, Take(reader[1], 8, 4), 1)

\* C11, as claimed: every body whose magic is none of the declared ones reads
\* as Unknown with its tag, version, length and bytes, and never as an error.
C11_UndeclaredNeverFails == UndeclaredMagic => PreservedAsUnknown

\* C11: a body whose magic is none of the declared ones reads as Unknown with
\* its tag, version, length and bytes when it holds the bytes its length field
\* declares, and the read is an error when it does not.
C11_UndeclaredReadsWhenHeld ==
    UndeclaredMagic =>
        IF HoldsDeclaredLength THEN PreservedAsUnknown
        ELSE parsed[1].status = "Err"

\* An undeclared magic with bytes to preserve has been read as Unknown.
C11_Witness ==
    /\ UndeclaredMagic
    /\ ReadAs("Unknown")
    /\ Len(parsed[1].value.raw_data) = 2

\* The nested frame of an MLEC body is whole: a declared compression type, the
\* KCBC magic at `magic_offset`, four u32 and the bytes the last one declares.
NestedFrameAt(magic_offset) ==
    /\ Len(reader[1]) >= 12
    /\ IsCompressionType(Take(reader[1], 8, 4))
    /\ HasMagic(reader[1], magic_offset, MagicKCBC)
    /\ Len(reader[1]) >= magic_offset + 20
    /\ CanRead(reader[1], magic_offset + 20, Take(reader[1], magic_offset + 16, 4), 1)

\* The plain frame of an MLEC body is whole.
PlainFrame ==
    /\ Len(reader[1]) >= 16
    /\ IsCompressionType(Take(reader[1], 8, 4))
    /\ CanRead(reader[1], 16, Take(reader[1], 12, 4), 1)

\* C15, as claimed: an MLEC body that decodes is the nested shape exactly when
\* KCBC is right after the compression-type field, and the plain shape
\* otherwise.
C15_NestedWhenKCBCFollowsCompression ==
    (IsMLEC /\ parsed[1].status = "Ok") =>
        IF HasMagic(reader[1], 12, MagicKCBC) THEN ReadAs("ThemeCBCK")
        ELSE ReadAs("Theme")

\* C15: an MLEC body reads as the nested shape exactly when KCBC is at offset
\* 16, after the compression type and one more u32, and the nested frame is
\* whole; it reads as the plain shape exactly when it does not read as the
\* nested one and the plain frame is whole.
C15_NestedWhenKCBCAtSixteen ==
    IsMLEC =>
        /\ ReadAs("ThemeCBCK") <=> NestedFrameAt(16)
        /\ ReadAs("Theme") <=> (~NestedFrameAt(16) /\ PlainFrame)

\* Both shapes of MLEC have been read: this state holds the nested one.
C15_Witness ==
    /\ IsMLEC
    /\ ReadAs("ThemeCBCK")
    /\ parsed[1].value.raw_data = <<7, 8>>

\* C16, as claimed: an MLEC body whose compression-type field holds no
\* declared CompressionType makes the read fail.
C16_UndeclaredCompressionFails ==
    (/\ IsMLEC
     /\ Len(reader[1]) >= 12
     /\ ~IsCompressionType(Take(reader[1], 8, 4)))
        => parsed[1].status = "Err"


\* ------------------------------------------------------------------------
\* Claims about loading a catalog file.

\* CarUtilAssetStorage::from has been called on a file that is a BOM.
LoadedFile == pc \in {"store", "panicked"} /\ IsSome(loaded) /\ IsSome(file) /\ file[1].magic_ok

\* The file has a var of the name whose block id is within the block table.
HasVar(name) == GetNamedBlock(ReadStorage(file[1]), name).status = "Ok"

\* Reading the index named `name` of the file fails with a parse error.
IndexFails(name) ==
    /\ HasVar(name)
    /\ \/ name = BITMAPKEYS /\ BitmapKeys(file[1]).status = "Err"
       \/ name = APPEARANCEKEYS /\ AppearanceDb(file[1]).status = "Err"
       \/ name = RENDITIONS /\ ImageDb(file[1]).status = "Err"

\* C12, as claimed: when reading the BITMAPKEYS, APPEARANCEKEYS or RENDITIONS
\* index of the file fails, CarUtilAssetStorage::from returns an error and no
\* inventory.
C12_ParseErrorsPropagate ==
    (LoadedFile /\ \E name \in {BITMAPKEYS, APPEARANCEKEYS, RENDITIONS} : IndexFails(name))
        => loaded[1].status = "Err"


\* ------------------------------------------------------------------------
\* Claims about the order of the inventory.

\* How often an entry occurs in a list.
Occurrences(list, entry) == Cardinality({i \in 1..Len(list) : list[i] = entry})

\* One list is the other in some order.
IsPermutation(a, b) ==
    /\ Len(a) = Len(b)
    /\ \A i \in 1..Len(a) : Occurrences(a, a[i]) = Occurrences(b, a[i])

\* C13: the entries put out are the entries the storage gave, in some order,
\* and no entry comes before one that is less by (AssetType, Name,
\* RenditionName); where the asset types are equal an entry without a name
\* comes before every entry with one.
C13_SortedPermutation ==
    Listed =>
        /\ IsPermutation(json, entries)
        /\ \A i, j \in 1..Len(json) :
              i < j =>
                 /\ CmpEntries(json[i], json[j]) # "Greater"
                 /\ (json[i].asset_type = json[j].asset_type /\ IsSome(json[i].name))
                        => IsSome(json[j].name)

\* The sort moved an entry without a name before one with a name.
C13_Witness ==
    /\ Listed
    /\ Len(entries) = 2
    /\ json = <<entries[2], entries[1]>>
    /\ json[1].asset_type = json[2].asset_type
    /\ ~IsSome(json[1].name)
    /\ IsSome(json[2].name)


\* ------------------------------------------------------------------------
\* Reading a tree: the FACETKEYS tree of a file, then its items.

MaxPathIndices == 2

\* Block ids of index pairs: a NullString, a KeyToken, one outside the
\* block table.
PathIndicesSamples == [index0 : {3, 4, 9}, index1 : {3, 4, 9}]

\* A tree, its Paths block, a key block and a value block.
TreePayloads(path_block_id, is_leaf, indices) ==
    << Block("Tree", TreeSize, [path_block_id |-> path_block_id]),
       Block("Paths", EmptyPathsSize + 8 * Len(indices), Paths(is_leaf, indices)),
       Block("NullString", 2, <<65>>),
       Block("KeyToken", 12, << [name |-> "Identifier", value |-> 112] >>) >>

\* Files of one tree: its Paths block a leaf or not, within the block table
\* or not; and a file whose var has a block id outside the block table.
TreeFiles ==
    { FileOf(<<VarFrom(FACETKEYS, 1)>>, TreePayloads(path_block_id, is_leaf, indices)) :
          path_block_id \in {2, 9}, is_leaf \in {0, 1},
          indices \in SeqsUpTo(PathIndicesSamples, MaxPathIndices) }
    \cup { FileOf(<<VarFrom(FACETKEYS, 9)>>, TreePayloads(2, 1, <<>>)) }

InitTree ==
    /\ overflow_checks = FALSE
    /\ pc = "tree"
    /\ renditionkeyfmt = FixtureKeyFormat
    /\ facetkeysdb = <<>>
    /\ imagedb = <<>>
    /\ entries = <<>>
    /\ attempts = <<>>
    /\ files = {}
    /\ stderr = <<>>
    /\ exit_code = None
    /\ file \in {Some(f) : f \in TreeFiles}
    /\ bom_storage = None
    /\ lookup = None
    /\ catalog = None
    /\ loaded = None
    /\ ReaderIdle
    /\ NoResult

\* bom_storage.get_named_typed_block::<bom::Tree>("FACETKEYS", ..).  A panic
\* ends the process.
GetTree ==
    /\ pc = "tree"
    /\ lookup = None
    /\ \E tree \in {GetNamedTypedBlock(file[1], FACETKEYS, "Tree")} :
          /\ lookup' = Some([name |-> FACETKEYS, result |-> tree])
          /\ pc' = IF tree.status = "Panic" THEN "panicked" ELSE pc
          /\ exit_code' = IF tree.status = "Panic" THEN Some(101) ELSE exit_code
    /\ UNCHANGED <<overflow_checks, renditionkeyfmt, facetkeysdb, imagedb, entries>>
    /\ UNCHANGED <<attempts, files, stderr>>
    /\ UNCHANGED <<file, bom_storage, catalog, loaded>>
    /\ UNCHANGED reader_vars
    /\ UNCHANGED json

\* The call `call` on the tree read gives `items`.
TreeCall(call, items) ==
    /\ parsed' = Some([call |-> call, result |-> items])
    /\ pc' = IF items.status = "Panic" THEN "panicked" ELSE pc
    /\ exit_code' = IF items.status = "Panic" THEN Some(101) ELSE exit_code
    /\ UNCHANGED <<overflow_checks, renditionkeyfmt, facetkeysdb, imagedb, entries>>
    /\ UNCHANGED <<attempts, files, stderr>>
    /\ UNCHANGED store_vars
    /\ UNCHANGED <<reader, json>>

\* tree.items(&bom_storage, &mut reader).
Items ==
    /\ pc = "tree"
    /\ IsSome(lookup)
    /\ lookup[1].result.status = "Ok"
    /\ parsed = None
    /\ \E items \in {TreeItems(file[1], lookup[1].result.value)} :
          TreeCall("items", items)

\* tree.items_typed::<NullString, rendition::KeyToken>(&bom_storage, &mut reader).
ItemsTyped ==
    /\ pc = "tree"
    /\ IsSome(lookup)
    /\ lookup[1].result.status = "Ok"
    /\ parsed = None
    /\ \E items \in {TreeItemsTyped(file[1], lookup[1].result.value,
                                    "NullString", "KeyToken")} :
          TreeCall("items_typed", items)

NextTree == GetTree \/ Items \/ ItemsTyped

SpecTree == InitTree /\ [][NextTree]_vars

\* ------------------------------------------------------------------------
\* Claims about reading a tree.

\* The size of the block table of the file.
TableSize == Len(file[1].items)

\* The var of the tree has been resolved.
TreeLookedUp == pc \in {"tree", "panicked"} /\ IsSome(lookup)

\* `call` has been made on the tree of the file.
Called(call) ==
    /\ TreeLookedUp
    /\ IsSome(parsed)
    /\ parsed[1].call = call

\* The tree of the file and, where its path_block_id is within the block
\* table, the Paths block it names.
TheTree == lookup[1].result.value
ThePaths == file[1].blocks[file[1].items[TheTree.path_block_id + 1].address].value

\* C14, as claimed: resolving a block id that is not less than the size of the
\* block table gives an error result, be the id that of a var, the
\* path_block_id of a tree or the key id of the first pair of a Paths block.
C14_OutOfRangeIsError ==
    /\ (TreeLookedUp /\ file[1].vars[1].block_id >= TableSize)
           => lookup[1].result.status = "Err"
    /\ (Called("items") /\ TheTree.path_block_id >= TableSize)
           => parsed[1].result.status = "Err"
    /\ (/\ Called("items_typed")
        /\ TheTree.path_block_id < TableSize
        /\ Len(ThePaths.indices) > 0
        /\ ThePaths.indices[1].index1 >= TableSize)
           => parsed[1].result.status = "Err"

\* C17, as claimed: Tree::items gives an error when the Paths block of the
\* tree has is_leaf other than 1.
C17_InternalNodeIsError ==
    (/\ Called("items")
     /\ TheTree.path_block_id < TableSize
     /\ ThePaths.is_leaf # 1)
        => parsed[1].result.status = "Err"

\* C18: Tree::items of a tree whose path_block_id is within the block table
\* gives one pair per entry of the Paths block, in stored order, each stored
\* (index0, index1) as (index1, index0).
C18_PairsSwappedInOrder ==
    (Called("items") /\ TheTree.path_block_id < TableSize) =>
        /\ parsed[1].result.status = "Ok"
        /\ Len(parsed[1].result.value) = Len(ThePaths.indices)
        /\ \A i \in 1..Len(ThePaths.indices) :
              parsed[1].result.value[i]
                  = <<ThePaths.indices[i].index1, ThePaths.indices[i].index0>>

\* Tree::items has given two pairs whose order and whose components tell.
C18_Witness ==
    /\ Called("items")
    /\ parsed[1].result.status = "Ok"
    /\ parsed[1].result.value = <<<<4, 3>>, <<3, 9>>>>


\* ---------------------------------------------------------------------------
\* coreui::tlv::RenditionType, read little-endian from the TLV area of a CSI
\* record, and csi::Header::properties.

\* The magics of the variants: 0x3E9, 0x3EB .. 0x3EF as stored.
MagicSlices == <<233, 3, 0, 0>>
MagicMetrics == <<235, 3, 0, 0>>
MagicBlendModeAndOpacity == <<236, 3, 0, 0>>
MagicUTI == <<237, 3, 0, 0>>
MagicEXIFOrientation == <<238, 3, 0, 0>>
MagicIDK == <<239, 3, 0, 0>>

\* EXIFOrientationValue, #[br(repr(u32))]: None = 0 up to Rotated2700Mirrored = 8.
EXIFOrientationValueCount == 9

\* A variant of fixed fields: the magic, _length and `words` u32 more.  What
\* is read is the record and the number of bytes the read took.
ReadFixed(bytes, magic, variant, words) ==
    IF HasMagic(bytes, 0, magic) /\ Len(bytes) >= 8 + 4 * words
    THEN Some([ record |-> [ variant |-> variant,
                             _length |-> Take(bytes, 4, 4),
                             fields |-> Take(bytes, 8, 4 * words) ],
                size |-> 8 + 4 * words ])
    ELSE None

\* RenditionType::UTI.
ReadUTI(bytes) ==
    IF /\ HasMagic(bytes, 0, MagicUTI)
       /\ Len(bytes) >= 16
       /\ CanRead(bytes, 16, Take(bytes, 8, 4), 1)
    THEN Some([ record |-> [ variant |-> "UTI",
                             _length |-> Take(bytes, 4, 4),
                             string_length |-> Take(bytes, 8, 4),
                             string |-> ReadRawData(bytes, 16, Take(bytes, 8, 4)) ],
                size |-> 16 + ToNat(Take(bytes, 8, 4)) ])
    ELSE None

\* RenditionType::EXIFOrientation moving the cursor past the magic alone.
ReadEXIFOrientationMagicOnly(bytes) ==
    IF /\ HasMagic(bytes, 0, MagicEXIFOrientation)
       /\ Len(bytes) >= 12
       /\ IsSmall(Take(bytes, 8, 4))
       /\ ToNat(Take(bytes, 8, 4)) < EXIFOrientationValueCount
    THEN Some([ record |-> [ variant |-> "EXIFOrientation",
                             _length |-> Take(bytes, 4, 4),
                             orientation |-> ToNat(Take(bytes, 8, 4)) ],
                size |-> 4 ])
    ELSE None

\* RenditionType::EXIFOrientation.
ReadEXIFOrientation(bytes) ==
    IF /\ HasMagic(bytes, 0, MagicEXIFOrientation)
       /\ Len(bytes) >= 12
       /\ IsSmall(Take(bytes, 8, 4))
       /\ ToNat(Take(bytes, 8, 4)) < EXIFOrientationValueCount
    THEN Some([ record |-> [ variant |-> "EXIFOrientation",
                             _length |-> Take(bytes, 4, 4),
                             orientation |-> ToNat(Take(bytes, 8, 4)) ],
                size |-> 12 ])
    ELSE None

\* RenditionType::IDK.
ReadIDK(bytes) ==
    IF /\ HasMagic(bytes, 0, MagicIDK)
       /\ Len(bytes) >= 8
       /\ CanRead(bytes, 8, Take(bytes, 4, 4), 1)
    THEN Some([ record |-> [ variant |-> "IDK",
                             length |-> Take(bytes, 4, 4),
                             data |-> ReadRawData(bytes, 8, Take(bytes, 4, 4)) ],
                size |-> 8 + ToNat(Take(bytes, 4, 4)) ])
    ELSE None

\* RenditionType::Unknown: no magic.
ReadUnknownType(bytes) ==
    IF /\ Len(bytes) >= 8
       /\ CanRead(bytes, 8, Take(bytes, 4, 4), 1)
    THEN Some([ record |-> [ variant |-> "Unknown",
                             tag |-> Take(bytes, 0, 4),
                             length |-> Take(bytes, 4, 4),
                             data |-> ReadRawData(bytes, 8, Take(bytes, 4, 4)) ],
                size |-> 8 + ToNat(Take(bytes, 4, 4)) ])
    ELSE None

\* <RenditionType as BinRead>::read_le: the variants in declaration order, the
\* first that reads; None stands for the error of all of them failing.
ReadRenditionType(bytes) ==
    FirstSome(<< ReadFixed(bytes, MagicSlices, "Slices", 5),
                 ReadFixed(bytes, MagicMetrics, "Metrics", 7),
                 ReadFixed(bytes, MagicBlendModeAndOpacity, "BlendModeAndOpacity", 2),
                 ReadUTI(bytes),
                 ReadEXIFOrientation(bytes),
                 ReadIDK(bytes),
                 ReadUnknownType(bytes) >>)

\* csi::Header::properties: records are read and pushed while the read is Ok;
\* the cursor moves on by what each read took.
RECURSIVE Properties(_)
Properties(tlv_data) ==
    IF IsSome(ReadRenditionType(tlv_data))
    THEN <<ReadRenditionType(tlv_data)[1].record>>
             \o Properties(SubSeq(tlv_data, ReadRenditionType(tlv_data)[1].size + 1,
                                  Len(tlv_data)))
    ELSE <<>>

\* The cursor of csi::Header::properties: its position after each record
\* read, from the position it starts the read at.
RECURSIVE CursorPositions(_, _)
CursorPositions(tlv_data, position) ==
    LET read == ReadRenditionType(SubSeq(tlv_data, position + 1, Len(tlv_data)))
    IN  IF IsSome(read)
        THEN <<position + read[1].size>>
                 \o CursorPositions(tlv_data, position + read[1].size)
        ELSE <<>>

\* ---------------------------------------------------------------------------
\* The properties of one CSI record.

MaxTlvRecords == 2

\* A record of the TLV area: type, length, length bytes.
TlvRecord(type, bytes) == type \o U32(Len(bytes)) \o bytes

\* Type ids no variant declares: 0x3F0 and 0x3F1.
TypeExternalTags == <<240, 3, 0, 0>>
TypeFrame == <<241, 3, 0, 0>>

\* Records of the TLV area: the slices of one slice and of two, a blend mode,
\* an orientation and one of no declared value, and records of other types.
TlvSamples ==
    { TlvRecord(MagicSlices, U32(1) \o U32(0) \o U32(0) \o U32(16) \o U32(16)),
      TlvRecord(MagicSlices, U32(2) \o U32(0) \o U32(0) \o U32(16) \o U32(16)
                                     \o U32(16) \o U32(0) \o U32(16) \o U32(16)),
      TlvRecord(MagicBlendModeAndOpacity, U32(0) \o U32(1)),
      TlvRecord(MagicEXIFOrientation, U32(1)),
      TlvRecord(MagicEXIFOrientation, U32(9)),
      TlvRecord(MagicIDK, <<5>>),
      TlvRecord(TypeExternalTags, <<7, 8>>),
      TlvRecord(TypeFrame, <<>>) }

\* The bytes a TLV area is short of at its end: none, or three.
TlvCuts == {0, 3}

InitProperties ==
    /\ overflow_checks = FALSE
    /\ pc = "properties"
    /\ renditionkeyfmt = FixtureKeyFormat
    /\ facetkeysdb = <<>>
    /\ imagedb = <<>>
    /\ entries = <<>>
    /\ attempts = <<>>
    /\ files = {}
    /\ stderr = <<>>
    /\ exit_code = None
    /\ StoreIdle
    /\ reader \in {Some(SubSeq(Flatten(records), 1, Len(Flatten(records)) - cut)) :
                        records \in SeqsUpTo(TlvSamples, MaxTlvRecords), cut \in TlvCuts}
    /\ parsed = None
    /\ NoResult

\* csi_header.properties().
PropertiesCall ==
    /\ pc = "properties"
    /\ IsSome(reader)
    /\ parsed = None
    /\ parsed' = Some(Properties(reader[1]))
    /\ lookup' = Some([name |-> "cursor", result |-> CursorPositions(reader[1], 0)])
    /\ UNCHANGED <<overflow_checks, pc, renditionkeyfmt, facetkeysdb, imagedb, entries>>
    /\ UNCHANGED extract_vars
    /\ UNCHANGED <<file, bom_storage, catalog, loaded>>
    /\ UNCHANGED <<reader, json>>

NextProperties == PropertiesCall

SpecProperties == InitProperties /\ [][NextProperties]_vars

\* ------------------------------------------------------------------------
\* Claims about the properties.

\* The (type, length, length bytes) records of an area, in stream order, up
\* to where fewer bytes are left than a record takes.
RECURSIVE Framed(_)
Framed(area) ==
    IF Len(area) >= 8 /\ CanRead(area, 8, Take(area, 4, 4), 1)
    THEN <<[type |-> Take(area, 0, 4), bytes |-> ReadRawData(area, 8, Take(area, 4, 4))]>>
             \o Framed(SubSeq(area, 9 + ToNat(Take(area, 4, 4)), Len(area)))
    ELSE <<>>

\* The type id of a record read.
TypeOf(record) ==
    CASE record.variant = "Slices" -> MagicSlices
      [] record.variant = "Metrics" -> MagicMetrics
      [] record.variant = "BlendModeAndOpacity" -> MagicBlendModeAndOpacity
      [] record.variant = "UTI" -> MagicUTI
      [] record.variant = "EXIFOrientation" -> MagicEXIFOrientation
      [] record.variant = "IDK" -> MagicIDK
      [] record.variant = "Unknown" -> record.tag

\* The properties of a TLV area have been read.
PropertiesRead == pc = "properties" /\ IsSome(reader) /\ IsSome(parsed)

\* C19, as claimed: the properties are the (type, length, length bytes)
\* records of the TLV area, one for one in stream order, and a record of a
\* type no variant declares is Unknown with its tag and bytes.
C19_RecordsInStreamOrder ==
    PropertiesRead =>
        /\ Len(parsed[1]) = Len(Framed(reader[1]))
        /\ \A i \in 1..Len(parsed[1]) :
              i <= Len(Framed(reader[1])) =>
                 /\ TypeOf(parsed[1][i]) = Framed(reader[1])[i].type
                 /\ Framed(reader[1])[i].type \in {TypeExternalTags, TypeFrame}
                        => /\ parsed[1][i].variant = "Unknown"
                           /\ parsed[1][i].data = Framed(reader[1])[i].bytes


\* ------------------------------------------------------------------------
\* Claims about the digests.

\* The index pairs of the RENDITIONS tree of a file.
RenditionPairs(stored) ==
    TreePaths(stored, GetNamedTypedBlock(stored, RENDITIONS, "Tree").value).value.indices

\* The digests as claimed: for each pair, the key with the digest of the
\* 184 + tlv_length + rendition_length bytes from the address of the CSI
\* record.
ClaimedDigests(stored) ==
    { LET address == stored.items[RenditionPairs(stored)[i].index0 + 1].address
      IN  << stored.blocks[stored.items[RenditionPairs(stored)[i].index1 + 1].address].value,
             Sha256(FileBytes(address,
                              ToNat(SizeOnDisk(stored.blocks[address].value, FALSE).value),
                              stored.blocks[address])) >> :
        i \in 1..Len(RenditionPairs(stored)) }

\* C20, as claimed: the digest of each rendition of a file loaded is that of
\* the 184 + tlv_length + rendition_length bytes from the address of its CSI
\* record, whatever length the block table has for the record.
C20_DigestOverRecordSize ==
    (LoadedFile /\ loaded[1].status = "Ok" /\ HasVar(RENDITIONS))
        => loaded[1].value.rendition_sha_digests = ClaimedDigests(file[1])


\* ------------------------------------------------------------------------
\* Claims about the palette expansion.

\* The pixel RGBA of a stored u32: R = byte 1, G = byte 2, B = byte 3,
\* A = byte 0, the bytes counted from the lowest.
ClaimedPixel(stored) == <<stored[2], stored[3], stored[4], stored[1]>>

\* Pixel p (from 0) of a buffer of RGBA pixels.
PixelAt(buffer, p) == SubSeq(buffer, 4 * p + 1, 4 * p + 4)

\* C21: whenever the palette expansion has filled its buffer, data word i
\* (from 0) has given pixel 2i from the palette entry of its high byte and
\* pixel 2i + 1 from the entry of its low byte, each as R = byte 1, G = byte 2,
\* B = byte 3, A = byte 0 of the stored u32, the pixels in the order of the
\* words.
C21_PaletteExpansion ==
    \A n \in 1..Len(attempts) :
        IsSome(attempts[n].buffer) =>
            \A i \in 0..(Len(attempts[n].image[1].data) - 1) :
                LET word == attempts[n].image[1].data[i + 1]
                    table == attempts[n].image[1].color_table
                IN  /\ 8 * (i + 1) <= Len(attempts[n].buffer[1])
                    /\ PixelAt(attempts[n].buffer[1], 2 * i)
                           = ClaimedPixel(table[(word \div 256) + 1])
                    /\ PixelAt(attempts[n].buffer[1], 2 * i + 1)
                           = ClaimedPixel(table[(word % 256) + 1])

\* An image of two data words has been expanded: the first word gives the
\* second palette entry and then the first, the second word the second twice.
C21_Witness ==
    \E n \in 1..Len(attempts) :
        /\ IsSome(attempts[n].buffer)
        /\ attempts[n].image[1].data = <<256, 257>>
        /\ attempts[n].buffer[1]
               = <<64, 32, 16, 128, 0, 0, 255, 255, 64, 32, 16, 128, 64, 32, 16, 128>>


\* ------------------------------------------------------------------------
\* One entry: AssetUtilEntry::from_csi_header on one rendition.

\* Bodies by variant and compression type.
EntryBodies ==
    { RenditionData("Theme", "PaletteImg", <<>>),
      RenditionData("Theme", "LZFSE", <<>>),
      RenditionData("ThemeCBCK", "PaletteImg", <<>>),
      RenditionData("ThemeCBCK", "LZFSE", <<>>),
      RenditionData("RawData", "NA", <<1, 2>>),
      RenditionData("Unknown", "NA", <<>>) }

\* rendition_flags: is_opaque set or not, each value of the three bits of
\* the template rendering mode.
FlagSamples == {U32(2 * opaque + 32 * mode) : opaque \in {0, 1}, mode \in 0..7}

\* The renditions an entry is made of.
EntryCsiSamples ==
    { WithFlags(CsiHeader(layout, <<84, 0>>, U32(2), U32(2), U32(100), U32(0), U32(54), body),
                flags) :
          layout \in {"Color", "Data", "Image", "MultisizeImage"},
          body \in EntryBodies, flags \in FlagSamples }

InitEntry ==
    /\ overflow_checks = FALSE
    /\ pc = "entry"
    /\ renditionkeyfmt = FixtureKeyFormat
    /\ facetkeysdb = <<>>
    /\ imagedb \in {<<[key |-> ExtractKey(1), csi |-> csi_header]>> :
                        csi_header \in EntryCsiSamples}
    /\ entries = <<>>
    /\ attempts = <<>>
    /\ files = {}
    /\ stderr = <<>>
    /\ exit_code = None
    /\ StoreIdle
    /\ ReaderIdle
    /\ NoResult

\* AssetUtilEntry::from_csi_header(&csi_header, None, rendition_key_values, ..).
FromCsiHeaderCall ==
    /\ pc = "entry"
    /\ \E made \in {FromCsiHeader(imagedb[1].csi, None,
                                  KeyFormatMap(renditionkeyfmt, imagedb[1].key),
                                  overflow_checks)} :
          /\ pc' = IF made.panic THEN "panicked" ELSE "made"
          /\ entries' = IF made.panic THEN <<>> ELSE <<made.entry>>
    /\ UNCHANGED <<overflow_checks, renditionkeyfmt, facetkeysdb, imagedb>>
    /\ UNCHANGED extract_vars
    /\ UNCHANGED store_vars
    /\ UNCHANGED reader_vars
    /\ UNCHANGED json

NextEntry == FromCsiHeaderCall

SpecEntry == InitEntry /\ [][NextEntry]_vars

\* ------------------------------------------------------------------------
\* Claims about one entry.

\* The entry of the rendition has been made.
EntryMade == pc = "made" /\ Len(entries) = 1

\* Bit `bit` of the flags word of the rendition.
FlagBit(bit) == (ToNat(imagedb[1].csi.rendition_flags) \div (2 ^ bit)) % 2

\* The template rendering mode of the rendition: bits 5 to 7 of its flags word
\* where they are the number of a mode, absent where they are none.
ClaimedTemplateMode ==
    CASE FlagBit(5) + 2 * FlagBit(6) + 4 * FlagBit(7) = 0 -> Some("Automatic")
      [] FlagBit(5) + 2 * FlagBit(6) + 4 * FlagBit(7) = 1 -> Some("Original")
      [] FlagBit(5) + 2 * FlagBit(6) + 4 * FlagBit(7) = 2 -> Some("Template")
      [] OTHER -> None

\* The body of the rendition has the compression PaletteImg.
PaletteImgBody ==
    /\ imagedb[1].csi.rendition_data.variant \in {"Theme", "ThemeCBCK"}
    /\ imagedb[1].csi.rendition_data.compression_type = "PaletteImg"

\* C22: the Template Mode of an entry is the template rendering mode of the
\* flags word when the layout is Image and the body's compression is
\* PaletteImg or the rendition is opaque (bit 1 of the flags word); it is
\* absent otherwise, and for every other layout.
C22_TemplateMode ==
    EntryMade =>
        entries[1].template_mode
            = IF /\ imagedb[1].csi.layout = "Image"
                 /\ (PaletteImgBody \/ FlagBit(1) = 1)
              THEN ClaimedTemplateMode
              ELSE None

\* An opaque Image rendition that is no palette image has the mode Template,
\* from bits 5 to 7 being 2.
C22_Witness ==
    /\ EntryMade
    /\ imagedb[1].csi.layout = "Image"
    /\ ~PaletteImgBody
    /\ FlagBit(1) = 1
    /\ entries[1].template_mode = Some("Template")


\* ------------------------------------------------------------------------
\* One key: KeyFormat::map and Key::find_attribute.

MaxKeyFormat == 3

\* Key formats of up to MaxKeyFormat attribute types, a type more than once
\* among them; the fixture's of 18; one of 19.
ShortKeyFormats == SeqsUpTo({"Scale", "Identifier", "Idiom"}, MaxKeyFormat)

\* The attribute types asked for.
AskedAttributes == {"Identifier", "Scale", "Idiom", "Look"}

InitKey ==
    /\ overflow_checks = FALSE
    /\ pc = "key"
    /\ renditionkeyfmt \in ShortKeyFormats \cup KeyFormatSamples
    /\ facetkeysdb = <<>>
    /\ imagedb \in {<<[key |-> key, csi |-> csi_header]>> :
                        key \in KeySamples,
                        csi_header \in {CsiHeader("Color", <<77, 0>>, U32(0), U32(0), U32(0),
                                                  U32(0), U32(76),
                                                  RenditionData("Color", "NA", <<>>))}}
    /\ entries = <<>>
    /\ attempts = <<>>
    /\ files = {}
    /\ stderr = <<>>
    /\ exit_code = None
    /\ StoreIdle
    /\ ReaderIdle
    /\ NoResult

\* key.find_attribute(key_format, attribute): the map of the key and the find
\* on it.
KeyFindAttribute ==
    /\ pc = "key"
    /\ lookup = None
    /\ \E attribute \in AskedAttributes :
          \E mapped \in {KeyFormatMap(renditionkeyfmt, imagedb[1].key)} :
              lookup' = Some([name |-> attribute,
                              result |-> [map |-> mapped,
                                          found |-> FindAttribute(mapped, attribute)]])
    /\ UNCHANGED <<overflow_checks, pc, renditionkeyfmt, facetkeysdb, imagedb, entries>>
    /\ UNCHANGED extract_vars
    /\ UNCHANGED <<file, bom_storage, catalog, loaded>>
    /\ UNCHANGED reader_vars
    /\ UNCHANGED json

NextKey == KeyFindAttribute

SpecKey == InitKey /\ [][NextKey]_vars

\* ------------------------------------------------------------------------
\* Claims about one key.

\* find_attribute has been called on the key with a key format of at most 18
\* attribute types.
FoundWithin == pc = "key" /\ IsSome(lookup) /\ Len(renditionkeyfmt) <= KeySlots

\* The positions (from 1) of the key format that hold the attribute asked for.
PositionsAsked == {i \in 1..Len(renditionkeyfmt) : renditionkeyfmt[i] = lookup[1].name}

\* C23: for a key format of N <= 18 attribute types the map of a key is the
\* sequence of (a_i, K[i]) for i below N, and find_attribute gives K[i] for the
\* first i whose a_i is the attribute asked for, absent when there is none.
C23_MapAndFind ==
    FoundWithin =>
        /\ Len(lookup[1].result.map) = Len(renditionkeyfmt)
        /\ \A i \in 1..Len(renditionkeyfmt) :
              lookup[1].result.map[i] = <<renditionkeyfmt[i], imagedb[1].key[i]>>
        /\ lookup[1].result.found
              = IF PositionsAsked = {} THEN None
                ELSE Some(imagedb[1].key[CHOOSE i \in PositionsAsked :
                                             \A j \in PositionsAsked : i <= j])

\* The attribute asked for is at the first and the third position of the key
\* format, and the slot of the first has been found.
C23_Witness ==
    /\ FoundWithin
    /\ PositionsAsked = {1, 3}
    /\ lookup[1].result.found = Some(imagedb[1].key[1])
    /\ imagedb[1].key[1] # imagedb[1].key[3]


\* ------------------------------------------------------------------------
\* Claims about the layout of the written file.

\* The end of the payload area: the highest end of a range of the block
\* table, the header's when there is no payload.
PayloadEnd(items) ==
    LET ends == {items[i].address + items[i].length : i \in 1..Len(items)}
                    \cup {BomHeaderSize}
    IN  CHOOSE end \in ends : \A other \in ends : other <= end

\* The byte ranges [from, to) and [other_from, other_to) share no byte.
Disjoint(from, to, other_from, other_to) == to <= other_from \/ other_to <= from

\* C24: in the file write_data produces, the payload area, the var table
\* and the block table occupy pairwise disjoint byte ranges, and the BOM
\* header points at the two addresses the tables are serialized at.
C24_TablesDisjoint ==
    Written =>
        /\ file[1].block_storage = BlockStorageAddress
        /\ file[1].var_storage = VarStorageAddress
        /\ Disjoint(BomHeaderSize, PayloadEnd(file[1].items),
                    file[1].var_storage,
                    file[1].var_storage + VarStorageSize(file[1].vars))
        /\ Disjoint(BomHeaderSize, PayloadEnd(file[1].items),
                    file[1].block_storage,
                    file[1].block_storage + BlockStorageSize(file[1].items))
        /\ Disjoint(file[1].var_storage,
                    file[1].var_storage + VarStorageSize(file[1].vars),
                    file[1].block_storage,
                    file[1].block_storage + BlockStorageSize(file[1].items))


\* ------------------------------------------------------------------------
\* Claims about the sizes of the fixed records.

\* The range of the block table of the written file the var of a name
\* points at.
WrittenRange(name) == GetNamedBlock(ReadStorage(file[1]), name)

\* C25 (as claimed): the serialized CARHEADER record has 216 bytes and the
\* serialized EXTENDED_METADATA record 1028.
C25_SizesAsClaimed ==
    Written =>
        /\ Len(WriteCarHeader(catalog[1].header)) = 216
        /\ Len(WriteCarExtendedMetadata(catalog[1].extended_metadata)) = 1028

\* C25 (amended): the serialized CARHEADER record has 436 bytes, its magic
\* included, and the serialized EXTENDED_METADATA record 1028; these are the
\* lengths of their blocks in the written file.
C25_RecordSizes ==
    Written =>
        /\ Len(WriteCarHeader(catalog[1].header)) = CarHeaderSize
        /\ Len(WriteCarExtendedMetadata(catalog[1].extended_metadata))
              = CarExtendedMetadataSize
        /\ WrittenRange(CARHEADER).status = "Ok"
        /\ WrittenRange(CARHEADER).value.length = CarHeaderSize
        /\ WrittenRange(EXTENDED_METADATA).status = "Ok"
        /\ WrittenRange(EXTENDED_METADATA).value.length = CarExtendedMetadataSize

\* A catalog with a timestamp and the fixture's key format has been written:
\* the file has a CARHEADER block of 436 bytes at the end of the BOM header
\* and an EXTENDED_METADATA block of 1028 bytes after it.
C25_Witness ==
    /\ Written
    /\ catalog[1].header.storage_timestamp = U32(1600000000)
    /\ catalog[1].renditionkeyfmt.attribute_types = FixtureKeyFormat
    /\ WrittenRange(CARHEADER).value = BlockRange(BomHeaderSize, 436)
    /\ WrittenRange(EXTENDED_METADATA).value = BlockRange(BomHeaderSize + 436, 1028)


\* ------------------------------------------------------------------------
\* Padded strings: common::parse_padded_string, str_to_sized_slice128 and
\* str_to_sized_slice256, dynamic_length_string_parser.

\* str_to_sized_slice128 keeping the first 128 bytes of a longer string.
StrToSizedSlice128Truncating(string) == Ok(StrToSizedSlice(string, PaddedSize128))

\* common::str_to_sized_slice128: `slice[i] = *c` for each byte of the
\* string; the index is out of bounds for byte 128 of a longer string.
StrToSizedSlice128(string) ==
    IF Len(string) > PaddedSize128 THEN Panicked("index out of bounds")
    ELSE Ok(StrToSizedSlice(string, PaddedSize128))

\* common::str_to_sized_slice256.
StrToSizedSlice256(string) ==
    IF Len(string) > PaddedSize256 THEN Panicked("index out of bounds")
    ELSE Ok(StrToSizedSlice(string, PaddedSize256))

MaxString == 3

\* The first bytes of the buffers and the short strings: NUL, "A", "B" and
\* 0xFF, which is no UTF-8.
ShortBytes == SeqsUpTo({0, 65, 66, 255}, MaxString)

\* A buffer of `size` bytes: the first bytes, then one byte repeated.
Filled(first, fill, size) ==
    [i \in 1..size |-> IF i <= Len(first) THEN first[i] ELSE fill]

\* The byte arrays of the padded fields: of 128 and of 256 bytes, padded
\* with NUL or filled with "B" to the end.
PaddedBuffers ==
    {Filled(first, fill, size) :
        first \in ShortBytes, fill \in {0, 66}, size \in {PaddedSize128, PaddedSize256}}

\* A &str is UTF-8: of the bytes drawn, all but 0xFF.
IsStr(bytes) == \A i \in 1..Len(bytes) : bytes[i] < 128

\* The strings given to str_to_sized_slice: the short ones, and strings of
\* "A" one byte shorter than the arrays, as long, and one byte longer.
StringSamples ==
    {string \in ShortBytes : IsStr(string)}
    \cup {Filled(<<>>, 65, size + more) :
            size \in {PaddedSize128, PaddedSize256}, more \in {-1, 0, 1}}

InitPadded ==
    /\ overflow_checks = FALSE
    /\ pc = "padded"
    /\ renditionkeyfmt = FixtureKeyFormat
    /\ facetkeysdb = <<>>
    /\ imagedb = <<>>
    /\ entries = <<>>
    /\ attempts = <<>>
    /\ files = {}
    /\ stderr = <<>>
    /\ exit_code = None
    /\ StoreIdle
    /\ reader \in PaddedBuffers \cup StringSamples
    /\ parsed = None
    /\ NoResult

\* What no call on a padded string changes.
padded_unchanged ==
    <<overflow_checks, renditionkeyfmt, facetkeysdb, imagedb, entries,
      attempts, files, stderr, file, bom_storage, lookup, catalog, loaded, reader, json>>

\* parse_padded_string(&buffer) on a byte array of a field.
ParsePaddedStringCall ==
    /\ pc = "padded"
    /\ parsed = None
    /\ reader \in PaddedBuffers
    /\ parsed' = Some([op |-> "parse_padded_string",
                       result |-> Ok(ParsePaddedString(reader))])
    /\ UNCHANGED <<pc, exit_code>>
    /\ UNCHANGED padded_unchanged

\* dynamic_length_string_parser(length) on the `length` bytes read.
DynamicLengthStringParserCall ==
    /\ pc = "padded"
    /\ parsed = None
    /\ parsed' = Some([op |-> "dynamic_length_string_parser",
                       result |-> Ok(DynamicLengthStringParser(reader))])
    /\ UNCHANGED <<pc, exit_code>>
    /\ UNCHANGED padded_unchanged

\* The result of a str_to_sized_slice call, then parse_padded_string on the
\* array it gave.
SlicedThenParsed(op, sliced) ==
    [op |-> op, result |-> sliced,
     string |-> IF sliced.status = "Ok" THEN Some(ParsePaddedString(sliced.value))
                ELSE None]

\* str_to_sized_slice128(string), then parse_padded_string on the array.  A
\* panic ends the process.
StrToSizedSlice128Call ==
    /\ pc = "padded"
    /\ parsed = None
    /\ IsStr(reader)
    /\ \E sliced \in {StrToSizedSlice128(reader)} :
          /\ parsed' = Some(SlicedThenParsed("str_to_sized_slice128", sliced))
          /\ pc' = IF sliced.status = "Panic" THEN "panicked" ELSE pc
          /\ exit_code' = IF sliced.status = "Panic" THEN Some(101) ELSE exit_code
    /\ UNCHANGED padded_unchanged

\* str_to_sized_slice256(string), then parse_padded_string on the array.
StrToSizedSlice256Call ==
    /\ pc = "padded"
    /\ parsed = None
    /\ IsStr(reader)
    /\ \E sliced \in {StrToSizedSlice256(reader)} :
          /\ parsed' = Some(SlicedThenParsed("str_to_sized_slice256", sliced))
          /\ pc' = IF sliced.status = "Panic" THEN "panicked" ELSE pc
          /\ exit_code' = IF sliced.status = "Panic" THEN Some(101) ELSE exit_code
    /\ UNCHANGED padded_unchanged

NextPadded ==
    \/ ParsePaddedStringCall
    \/ DynamicLengthStringParserCall
    \/ StrToSizedSlice128Call
    \/ StrToSizedSlice256Call

SpecPadded == InitPadded /\ [][NextPadded]_vars

\* ------------------------------------------------------------------------
\* Claims about padded strings.

\* A buffer has been decoded, by parse_padded_string or by
\* dynamic_length_string_parser.
Decoded ==
    /\ IsSome(parsed)
    /\ parsed[1].op \in {"parse_padded_string", "dynamic_length_string_parser"}

\* The positions of the NUL bytes of the buffer.
NulPositions == {i \in 1..Len(reader) : reader[i] = 0}

\* C26 (as claimed): a padded string field is decoded by stripping only the
\* trailing NUL bytes and keeping the remainder, for every byte array.
C26_TrailingNulsStripped ==
    Decoded =>
        \E kept \in 0..Len(reader) :
            /\ \A i \in (kept + 1)..Len(reader) : reader[i] = 0
            /\ kept > 0 => reader[kept] # 0
            /\ parsed[1].result.value = Utf8Lossy(SubSeq(reader, 1, kept))

\* C26 (amended): a padded string field is decoded by keeping the bytes
\* before the first NUL byte, all of them when there is none, decoded as
\* UTF-8 lossily; what follows the first NUL is dropped, NUL or not.
C26_BeforeFirstNul ==
    Decoded =>
        \E kept \in 0..Len(reader) :
            /\ \A i \in 1..kept : reader[i] # 0
            /\ kept < Len(reader) => reader[kept + 1] = 0
            /\ parsed[1].result.value = Utf8Lossy(SubSeq(reader, 1, kept))

\* The array of 128 bytes "A", NUL, "B", then NUL to the end has been
\* decoded by parse_padded_string as "A".
C26_Witness ==
    /\ IsSome(parsed)
    /\ parsed[1].op = "parse_padded_string"
    /\ reader = Filled(<<65, 0, 66>>, 0, PaddedSize128)
    /\ parsed[1].result.value = <<65>>

\* A string has been given to str_to_sized_slice128 or str_to_sized_slice256;
\* the size of the array of the call.
Sliced ==
    /\ IsSome(parsed)
    /\ parsed[1].op \in {"str_to_sized_slice128", "str_to_sized_slice256"}

SlicedSize ==
    IF parsed[1].op = "str_to_sized_slice128" THEN PaddedSize128 ELSE PaddedSize256

\* C30: for a string without NUL bytes of at most 128 bytes,
\* parse_padded_string(str_to_sized_slice128(s)) is s and every byte of the
\* array after the first len(s) is zero; the same for str_to_sized_slice256
\* and 256; a longer string gives no array.
C30_PaddedRoundTrip ==
    Sliced =>
        /\ (Len(reader) <= SlicedSize /\ NulPositions = {}) =>
              /\ parsed[1].result.status = "Ok"
              /\ Len(parsed[1].result.value) = SlicedSize
              /\ parsed[1].string = Some(reader)
              /\ \A i \in (Len(reader) + 1)..SlicedSize : parsed[1].result.value[i] = 0
        /\ Len(reader) > SlicedSize => parsed[1].result.status # "Ok"

\* A string of 128 bytes without NUL has come back from str_to_sized_slice128
\* and parse_padded_string.
C30_Witness ==
    /\ Sliced
    /\ parsed[1].op = "str_to_sized_slice128"
    /\ Len(reader) = PaddedSize128
    /\ NulPositions = {}
    /\ parsed[1].result.status = "Ok"
    /\ parsed[1].string = Some(reader)


\* ------------------------------------------------------------------------
\* Claims about palette indices outside the color table.

\* The quantized image of a rendition, when its body is a palette image
\* that decodes: None otherwise.
QuantizedOf(csi_header) ==
    IF /\ csi_header.layout = "Image"
       /\ csi_header.rendition_data.variant = "Theme"
       /\ csi_header.rendition_data.compression_type = "PaletteImg"
       /\ IsSome(LzfseDecode(csi_header.rendition_data.raw_data))
    THEN ReadQuantizedImage(LzfseDecode(csi_header.rendition_data.raw_data)[1],
                            csi_header.width, csi_header.height, overflow_checks).image
    ELSE None

\* A data word of the image has a high or a low byte that is no index of
\* the color table.
IndexOutsideTable(image) ==
    \E w \in 1..Len(image.data) :
        \/ image.data[w] \div 256 >= image.color_count
        \/ image.data[w] % 256 >= image.color_count

\* C28: for every decoded quantized image, a palette index outside the
\* color table is reported as a decode error; the extraction does not end
\* in an access out of range.
C28_OutsideTableIsError ==
    \A n \in 1..Len(attempts) :
        (/\ IsSome(QuantizedOf(imagedb[n].csi))
         /\ IndexOutsideTable(QuantizedOf(imagedb[n].csi)[1]))
        => /\ attempts[n].result = "Err"
           /\ attempts[n].error # Some("index out of bounds")


\* ------------------------------------------------------------------------
\* Claims about the loop of the properties.

\* The positions of the cursor of the call: before the first read, then
\* after each record read.
Positions == <<0>> \o lookup[1].result

\* C29: Header::properties terminates for every TLV area: each iteration
\* that yields a record consumes at least 8 bytes of the area, the loop
\* stops at the first record that cannot be read, and the bytes consumed
\* never exceed the length of the area.
C29_PropertiesTerminates ==
    PropertiesRead =>
        /\ lookup[1].name = "cursor"
        /\ Len(lookup[1].result) = Len(parsed[1])
        /\ \A i \in 1..Len(parsed[1]) :
              /\ Positions[i + 1] >= Positions[i] + 8
              /\ Positions[i + 1] <= Len(reader[1])
              /\ ReadRenditionType(SubSeq(reader[1], Positions[i] + 1, Len(reader[1])))
                     = Some([record |-> parsed[1][i],
                             size |-> Positions[i + 1] - Positions[i]])
        /\ 8 * Len(parsed[1]) <= Len(reader[1])
        /\ ReadRenditionType(SubSeq(reader[1], Positions[Len(Positions)] + 1,
                                    Len(reader[1]))) = None

\* From an area of 44 bytes two records have been read, Slices of 28 bytes
\* and an Unknown of 8, and the loop has stopped at the 8 bytes left, which
\* announce 16 bytes of data.
C29_Witness ==
    /\ PropertiesRead
    /\ Len(reader[1]) = 44
    /\ Len(parsed[1]) = 2
    /\ parsed[1][1].variant = "Slices"
    /\ parsed[1][2].variant = "Unknown"
    /\ Positions = <<0, 28, 36>>


\* ------------------------------------------------------------------------
\* The inventory of a catalog file: CarUtilAssetStorage::from, then
\* entries_from_asset_storage on the store loaded.

MaxIndexPairs == 3

\* `sha_digest` of entries_from_asset_storage (186-190): the digest of the
\* key in rendition_sha_digests, cloned, the empty Vec when it has none.
ShaDigestOf(digests, key) ==
    IF \E pair \in digests : pair[1] = key
    THEN (CHOOSE pair \in digests : pair[1] = key)[2]
    ELSE <<>>

\* entries_from_asset_storage on a store that was loaded: the entries of
\* imagedb in its order, each with the sha_digest of its key.
EntriesFromStore(store, checks) ==
    LET images == store.imagedb[1]
        made == EntriesFrom(store.renditionkeyfmt.attribute_types, store.facetkeysdb,
                            images, checks, 1)
    IN  [ panic |-> made.panic,
          entries |-> [i \in 1..Len(made.entries) |->
                          made.entries[i]
                              @@ [sha_digest |-> ShaDigestOf(store.rendition_sha_digests,
                                                             images[i].key)]] ]

\* The payloads of the fixture's catalog, its RENDITIONS index holding the
\* pairs given, followed by a second key (block 19), the fixture's key once
\* more (block 20) and a second CSI record (block 21).
IndexedPayloads(pairs) ==
    [FixturePayloads(U32(1500000000))
         EXCEPT ![9] = Block("Paths", 12 + 8 * Len(pairs), Paths(1, pairs))]
    \o << Block("Key", 36, [i \in 1..KeySlots |-> 50 + i]),
          Block("Key", 36, [i \in 1..KeySlots |-> 100 + i]),
          Block("csi::Header", 238,
                CsiHeader("Data", <<78, 0>>, U32(0), U32(0), U32(100), U32(0), U32(54),
                          RenditionData("RawData", "NA", <<1, 2>>))) >>

\* Index pairs of RENDITIONS: index0 the block of a CSI record, index1 the
\* block of a key.
IndexPairSamples == [index0 : {11, 21}, index1 : {10, 19, 20}]

\* A length of the block table that ends past the end of every file drawn.
PastTheEnd == 65536

\* The catalog files: every index of up to MaxIndexPairs pairs, the block
\* table holding for the first CSI record its 260 bytes or a length past
\* the end of the file.
IndexedFiles ==
    { [FileOf(RequiredVars \o <<VarFrom(RENDITIONS, 8)>>, IndexedPayloads(pairs))
           EXCEPT !.items[12] = BlockRange(512 * 11, length)] :
        pairs \in SeqsUpTo(IndexPairSamples, MaxIndexPairs),
        length \in {260, PastTheEnd} }

InitCatalog ==
    /\ overflow_checks = FALSE
    /\ pc = "catalog"
    /\ renditionkeyfmt = FixtureKeyFormat
    /\ facetkeysdb = <<>>
    /\ imagedb = <<>>
    /\ entries = <<>>
    /\ attempts = <<>>
    /\ files = {}
    /\ stderr = <<>>
    /\ exit_code = None
    /\ file \in {Some(f) : f \in IndexedFiles}
    /\ bom_storage = None
    /\ lookup = None
    /\ catalog = None
    /\ loaded = None
    /\ ReaderIdle
    /\ NoResult

\* main, Commands::Assetutil with a path: the catalog is loaded, its entries
\* are made, sorted and pushed onto the result printed.  An error of the
\* load ends main with it, a panic ends the process.
AssetutilInfo ==
    /\ pc = "catalog"
    /\ loaded = None
    /\ \E car \in {CarUtilAssetStorageFrom(file)} :
          /\ loaded' = Some(car)
          /\ IF car.status = "Ok"
             THEN \E made \in {EntriesFromStore(car.value, overflow_checks)} :
                     /\ pc' = IF made.panic THEN "panicked" ELSE "listed"
                     /\ entries' = made.entries
                     /\ json' = SortBy(made.entries)
                     /\ exit_code' = IF made.panic THEN Some(101) ELSE Some(0)
             ELSE /\ pc' = IF car.status = "Panic" THEN "panicked" ELSE "failed"
                  /\ exit_code' = IF car.status = "Panic" THEN Some(101) ELSE Some(1)
                  /\ UNCHANGED <<entries, json>>
    /\ UNCHANGED <<overflow_checks, renditionkeyfmt, facetkeysdb, imagedb>>
    /\ UNCHANGED <<attempts, files, stderr>>
    /\ UNCHANGED <<file, bom_storage, lookup, catalog>>
    /\ UNCHANGED reader_vars

NextCatalog == AssetutilInfo

SpecCatalog == InitCatalog /\ [][NextCatalog]_vars

\* ------------------------------------------------------------------------
\* Claims about the inventory of a catalog file.

\* The entries of the catalog file have been made.
CatalogListed == pc = "listed" /\ IsSome(file) /\ IsSome(loaded)

\* The RENDITIONS index of a file as stored: for each pair the key at the
\* block index1, the CSI record at the block index0, and the digest of the
\* bytes of that block.
IndexOf(stored) ==
    [i \in 1..Len(RenditionPairs(stored)) |->
        LET key_range == stored.items[RenditionPairs(stored)[i].index1 + 1]
            value_range == stored.items[RenditionPairs(stored)[i].index0 + 1]
        IN  [ key |-> stored.blocks[key_range.address].value,
              csi |-> stored.blocks[value_range.address].value,
              digest |-> Sha256(FileBytes(value_range.address, value_range.length,
                                          stored.blocks[value_range.address])) ]]

\* The keys of an index.
KeysOf(index) == {index[i].key : i \in DOMAIN index}

\* The last pair of an index that has the key.
LaterOf(index, key) ==
    index[CHOOSE i \in DOMAIN index :
              /\ index[i].key = key
              /\ \A j \in DOMAIN index : j > i => index[j].key # key]

\* The place of a key among the keys of an index in ascending order.
RankOf(index, key) == Cardinality({other \in KeysOf(index) : KeyLess(other, key)}) + 1

\* C27: the inventory has exactly one entry for each distinct rendition key
\* of the RENDITIONS index, made from the later of two index entries of
\* equal keys; the entries are in ascending key order; the digest of each
\* entry is the one of the record stored for its key.
C27_OneEntryPerKey ==
    CatalogListed =>
        LET index == IndexOf(file[1])
            store == loaded[1].value
        IN  /\ Len(entries) = Cardinality(KeysOf(index))
            /\ \A key \in KeysOf(index) :
                  /\ RankOf(index, key) <= Len(entries)
                  /\ entries[RankOf(index, key)]
                       = EntryFor(store.renditionkeyfmt.attribute_types, store.facetkeysdb,
                                  [key |-> key, csi |-> LaterOf(index, key).csi],
                                  overflow_checks).entry
                         @@ [sha_digest |-> LaterOf(index, key).digest]

====
